---- MODULE Spec2Model ----
(***************************************************************************)
(* A model of epd_mate.py: the Filter Pipeline (AnalyzerThread.run) that   *)
(* streams an EPD file through one UCI engine and keeps the lines with a   *)
(* forced mate within mate_limit, and the caller's cancel request; the     *)
(* mate extraction and the annotation of one analysed line on their own;   *)
(* and the Puzzle Builder that turns annotated lines into puzzle entries.  *)
(*                                                                         *)
(* What is outside the source (the chess library, the engine process, the  *)
(* file system, the callbacks handed to the thread) is the environment:    *)
(* every call into it either returns or raises, chosen nondeterministically *)
(* where the code can observe the difference.                              *)
(***************************************************************************)
EXTENDS Integers, Sequences, FiniteSets, TLC

\* ------------------------------------------------------------------ bounds
MaxLines == 2      \* longest input file, in lines
MaxLimit == 1      \* mate_limit ranges over 0..MaxLimit (the slider gives 0..12)
MaxPv    == 1      \* longest principal variation
MaxRendered == 4   \* largest integer a score's rendering can spell
MaxWalk  == 4      \* longest principal variation of the annotation on its own
MaxTokens == 2     \* most tokens in a sol operand
MaxTheme == 2      \* largest integer a theme operand can spell
MaxTotal == 50     \* longest file whose progress events are computed
MaxFields == 6     \* most position fields at the head of a line

\* ------------------------------------------------------- input vocabulary
\* One input line, by what run() can tell about it: blank after strip(),
\* rejected by chess.Board(), or accepted by chess.Board().
LineKinds == {"blank", "invalid", "valid"}

\* The input file.  Both passes of run() read the same content: the file is
\* not modified while the thread runs.
Files == UNION {[1..n -> LineKinds] : n \in 0..MaxLines}

\* An optional integer is the empty set or a singleton.
None == {}
Some(v) == {v}
\* Engine mate distances: every magnitude a limit can accept, zero, and one
\* magnitude beyond the largest limit, in both signs.
Mates == (0 - (MaxLimit + 1))..(MaxLimit + 1)
OptMates == {None} \cup {Some(m) : m \in Mates}

\* What one strategy of the mate extraction can meet: the call raises, the
\* attribute is missing, or it yields an optional integer.
Raises == [tag |-> "raise", val |-> None]
Absent == [tag |-> "absent", val |-> None]
Yields(o) == [tag |-> "value", val |-> o]

\* info.get('score'): missing, or an object with the three faces run() probes:
\* score.mate(), score.pov(turn).mate(), str(score).
ScoreObjects ==
    [direct : {Raises} \cup {Yields(o) : o \in OptMates},
     pov    : {Raises, Absent} \cup {Yields(o) : o \in OptMates},
     text   : {Raises} \cup {Yields(o) : o \in OptMates}]

\* A move of the principal variation, by what the walk on the scratch board
\* meets: push() raises ("bad"), the board after it is checkmate ("mate"),
\* or neither ("quiet").
MoveKinds == {"quiet", "mate", "bad"}
Pvs == UNION {[1..n -> MoveKinds] : n \in 0..MaxPv}

\* ------------------------------------------------------------------- state
VARIABLES
    lines,            \* the input file, one kind per line
    mate_limit,       \* self.mate_limit
    add_solution,     \* self.add_solution
    stop,             \* self.stop_event
    pc,               \* where the worker is in run()
    result,           \* how run() ended: "", "empty", "completed", "cancelled", "failed"
    engine,           \* "none", "open", "quit"
    opened,           \* number of popen_uci calls that returned an engine
    threads_option,   \* engine.configure of line 170: "", "applied", "rejected"
    total_positions,  \* total_positions of the counting pass
    processed,        \* processed
    kept,             \* kept
    outfile,          \* the output file: created or not, and its lines
    requests,         \* line numbers engine.analyse was called for, in order
    inflight,         \* line numbers whose engine.analyse has not returned
    log,              \* the thread's log_callback invocations, in order
    progress,         \* progress_callback invocations, in order
    eta,              \* eta_callback invocations, in order
    last,             \* what run() did with the line it read most recently
    cancel_btn,       \* the cancel button is enabled
    clicked,          \* where the worker was when cancel was clicked
    polls,            \* number of stop_event.is_set() evaluations
    cancelledAt       \* processed when a poll saw the event set, else -1

\* The state of one mate extraction taken on its own.
VARIABLES
    info_score,       \* info.get('score'): None or Some(score object)
    mate_found,       \* `mate` when the extraction is over
    strategies,       \* the strategies the extraction consulted
    xpc               \* "idle", "score", "extracted"

\* The state of one annotation (the walk of the principal variation of a kept
\* line) taken on its own.
VARIABLES
    pv_raw,               \* info.get('pv') or []
    mate_index,           \* mate_index after the walk: None or Some(index)
    annotated_move_ucis,  \* annotated_move_ucis after the marking
    board_moves,          \* places of the pv moves pushed on `board` by the walk
    board_cp_moves,       \* places of the pv moves pushed on `board_cp`
    walk_raised,          \* an exception left the walk
    apc                   \* "idle", "walk", "annotated"

\* The state of one call of _parse_puzzle_from_line taken on its own.
VARIABLES
    raw_line,         \* the stripped line handed to the builder
    line_number,      \* its line number
    fix_move_order,   \* the move-order normalization flag
    log_faults,       \* which calls of log_callback raise: "none", "first", "all"
    built,            \* how the call ended, and the entry it returned
    bpc               \* "idle", "line", "built"

\* The state of one call of generate_json_from_epd.
VARIABLES
    source,           \* the source file: per line None (blank) or Some(line)
    json_fix,         \* fix_move_order of the call
    stop_event,       \* the stop event handed to the call
    total_lines,      \* total_lines of the counting pass
    json_processed,   \* processed
    json_kept,        \* kept
    puzzles,          \* puzzles
    cancelled,        \* cancelled
    handled,          \* per line read: "blank", "none" or "entry"
    json_progress,    \* progress_callback invocations, in order
    returned,         \* None, or Some of the tuple the call returned
    dest,             \* what JsonExportWorker.run did to the destination file
    finished,         \* finished_callback invocations, in order
    cb_raised,        \* a callback of the run has raised
    jpc               \* "idle", "count", "loop", "finally", "unwind", "returned", "raised", "done"

\* The state of the keep decision for one analysed line in two runs that
\* differ only in the sign of the mate distance reported for it.
VARIABLES
    sign_mate,        \* the mate distance of the first run; the second has its negative
    sign_limit,       \* mate_limit of both runs
    sign_pv,          \* the principal variation of both runs
    sign_add,         \* add_solution of both runs
    out_first,        \* what the first run writes for the line: None or Some(line)
    out_second,       \* what the second run writes for the line
    spc               \* "idle", "analysed", "decided"

\* The state of the streaming loop at the head of one iteration, for files
\* longer than the ones the whole pipeline is run on.
VARIABLES
    bar_total,        \* total_positions
    bar_processed,    \* processed
    bar_kept,         \* kept
    bar_event,        \* the progress_callback invocation of the iteration, or None
    gpc               \* "idle", "head", "reported"

\* The state of one line on its way through both pipelines: read, analysed
\* and written by run(), then read by _parse_puzzle_from_line.
VARIABLES
    trip_line,        \* the input line of the Filter Pipeline, word by word
    trip_ok,          \* what chess.Board says about well-formed text of the line
    trip_mate,        \* the mate distance extracted for the line
    trip_limit,       \* mate_limit
    trip_pv,          \* the principal variation
    trip_add,         \* add_solution
    trip_analysed,    \* candidate_fen when the line was analysed, else None
    trip_written,     \* the line written to the output file, else None
    trip_kept,        \* kept, counted from this line on
    trip_read,        \* what _parse_puzzle_from_line got from the written line
    tpc               \* "idle", "input", "filtered", "read"

runVars == <<lines, mate_limit, add_solution, stop, pc, result, engine, opened,
             threads_option,
             total_positions, processed, kept, outfile, requests, inflight,
             log, progress, eta, last, cancel_btn, clicked, polls, cancelledAt>>

extractVars == <<info_score, mate_found, strategies, xpc>>

\* Everything a run of the Filter Pipeline leaves alone.
annotateVars == <<pv_raw, mate_index, annotated_move_ucis, board_moves,
                  board_cp_moves, walk_raised, apc>>

builderVars == <<raw_line, line_number, fix_move_order, log_faults, built, bpc>>

exportVars == <<source, json_fix, stop_event, total_lines, json_processed,
                json_kept, puzzles, cancelled, handled, json_progress,
                returned, dest, finished, cb_raised, jpc>>

signVars == <<sign_mate, sign_limit, sign_pv, sign_add, out_first, out_second, spc>>

barVars == <<bar_total, bar_processed, bar_kept, bar_event, gpc>>

tripVars == <<trip_line, trip_ok, trip_mate, trip_limit, trip_pv, trip_add,
              trip_analysed, trip_written, trip_kept, trip_read, tpc>>

others == <<extractVars, annotateVars, builderVars, exportVars, signVars, barVars,
            tripVars>>

vars == <<lines, mate_limit, add_solution, stop, pc, result, engine, opened,
          threads_option,
          total_positions, processed, kept, outfile, requests, inflight,
          log, progress, eta, last, cancel_btn, clicked, polls, cancelledAt,
          others>>


\* --------------------------------------------------- pure parts of run()
Abs(n) == IF n < 0 THEN 0 - n ELSE n

\* One strategy's contribution: a raise or a missing attribute leaves mate = None.
Got(face) == IF face.tag = "value" THEN face.val ELSE None

\* run(): mate extraction from info.get('score').  sc is None (no score) or
\* Some(score object).  Strategy 1 is score.mate(), strategy 2 is
\* score.pov(board.turn).mate(), strategy 3 is the regular expression on
\* str(score); a later strategy runs only while mate is still None.
MateExtractTextFirst(sc) ==
    IF sc = None THEN None
    ELSE LET s  == CHOOSE o \in sc : TRUE
             m3 == Got(s.text)
             m2 == IF m3 = None THEN Got(s.pov) ELSE m3
             m1 == IF m2 = None THEN Got(s.direct) ELSE m2
         IN  m1

MateExtract(sc) ==
    IF sc = None THEN None
    ELSE LET score == CHOOSE s \in sc : TRUE
             m1 == Got(score.direct)
             m2 == IF m1 = None THEN Got(score.pov) ELSE m1
             m3 == IF m2 = None THEN Got(score.text) ELSE m2
         IN  m3

\* The strategies run() consults for sc, numbered as above.
Consulted(sc) ==
    IF sc = None THEN {}
    ELSE LET s  == CHOOSE o \in sc : TRUE
             m1 == Got(s.direct)
             m2 == IF m1 = None THEN Got(s.pov) ELSE m1
         IN  {1} \cup (IF m1 = None THEN {2} ELSE {})
                 \cup (IF m2 = None THEN {3} ELSE {})

\* Every optional mate distance the extraction can hand to the keep test.
ExtractedMates == {MateExtract(sc) : sc \in {None} \cup {Some(s) : s \in ScoreObjects}}

\* run(): `if mate is not None: mate_moves = abs(mate); if 1 <= mate_moves <= self.mate_limit`
KeepTestLoose(mate, limit) ==
    /\ mate # None
    /\ Abs(CHOOSE m \in mate : TRUE) <= limit

KeepTestUnlessStopped(mate, limit) ==
    /\ ~stop
    /\ mate # None
    /\ LET mate_moves == Abs(CHOOSE m \in mate : TRUE)
       IN  1 <= mate_moves /\ mate_moves <= limit

KeepTestWinningOnly(mate, limit) ==
    /\ mate # None
    /\ LET m == CHOOSE x \in mate : TRUE
       IN  1 <= m /\ m <= limit

KeepTestBelowLimit(mate, limit) ==
    /\ mate # None
    /\ LET mate_moves == Abs(CHOOSE m \in mate : TRUE)
       IN  1 <= mate_moves /\ mate_moves < limit

KeepTest(mate, limit) ==
    /\ mate # None
    /\ LET mate_moves == Abs(CHOOSE m \in mate : TRUE)
       IN  1 <= mate_moves /\ mate_moves <= limit

\* run(): the walk of pv_raw on board_cp.  Every visited move is recorded in
\* move_ucis before it is pushed; the walk stops after a move whose push()
\* raises or after which board_cp.is_checkmate().  Indices are 1-based here.
Stops(pv) == {i \in 1..Len(pv) : pv[i] \in {"bad", "mate"}}

RecordedAll(pv) == Len(pv)

Recorded(pv) ==
    IF Stops(pv) = {} THEN Len(pv)
    ELSE CHOOSE i \in Stops(pv) : \A j \in Stops(pv) : i <= j

\* The moves the walk pushed: board_cp = board.copy() takes every push that
\* returns, `board` takes none.
PushedOnCopy(pv) == {i \in 1..Recorded(pv) : pv[i] # "bad"}
PushedOnBoard(pv) == {}

\* Whether an exception leaves the walk: the raise of push() is caught by
\* the `except Exception: break` that surrounds it.
WalkRaises(pv) == FALSE

\* mate_index: Some(index of the checkmating move) or None.
MateIndex(pv) ==
    LET n == Recorded(pv)
    IN  IF n >= 1 /\ pv[n] = "mate" THEN Some(n) ELSE None

\* annotated_move_ucis: the recorded moves, '#' appended to the one at
\* mate_index, or to the last one when mate_index is None.
AnnotatedEvery(pv) ==
    [i \in 1..Recorded(pv) |-> [mv |-> i, hash |-> TRUE]]

Annotated(pv) ==
    LET n == Recorded(pv)
        mark_idx == IF MateIndex(pv) # None
                    THEN CHOOSE i \in MateIndex(pv) : TRUE
                    ELSE n
    IN  [i \in 1..n |-> [mv |-> i, hash |-> (i = mark_idx)]]

\* output_line: line.rstrip('\n') with ' ; sol "..."; ; theme "mate N";'
\* appended when add_solution and the annotated list is not empty.
SolAppendedWhenEnabled(pv, addSol) == addSol

SolAppended(pv, addSol) == addSol /\ Len(Annotated(pv)) > 0

OutputLineAlwaysAnnotated(n, mate, pv, addSol) ==
    [src   |-> n,
     sol   |-> Annotated(pv),
     theme |-> IF Len(Annotated(pv)) > 0
               THEN Some(Abs(CHOOSE m \in mate : TRUE)) ELSE None]

OutputLine(n, mate, pv, addSol) ==
    [src   |-> n,
     sol   |-> IF SolAppended(pv, addSol) THEN Annotated(pv) ELSE <<>>,
     theme |-> IF SolAppended(pv, addSol)
               THEN Some(Abs(CHOOSE m \in mate : TRUE)) ELSE None]

\* ---- int(processed / total_positions * 100), in binary64 arithmetic
\* Python's `/` on two ints is a correctly rounded binary64 quotient, `* 100`
\* a correctly rounded binary64 product, and int() truncates.  A binary64
\* number is modelled by its significand (MantissaBits bits, most significant
\* first, the first one set) and the power of two of its leading bit.
MantissaBits == 53

Double(bits, exp) == [bits |-> bits, exp |-> exp]

\* 2^k modulo t, by repeated squaring.
RECURSIVE Pow2Mod(_, _)
Pow2Mod(k, t) ==
    IF k = 0
    THEN 1 % t
    ELSE LET h == Pow2Mod(k \div 2, t)
         IN  (h * h * (IF k % 2 = 1 THEN 2 ELSE 1)) % t

\* Long division: the first k bits of r / t after the binary point (r < t),
\* and what is left of r after them.  The remainder after j steps is
\* r * 2^j modulo t.
DivBits(r, t, k) ==
    [bits |-> [j \in 1..k |->
                  IF 2 * ((r * Pow2Mod(j - 1, t)) % t) >= t THEN 1 ELSE 0],
     rem |-> (r * Pow2Mod(k, t)) % t]

\* bits + 1: the lowest clear bit is set and the bits below it cleared; when
\* all are set, the carry out of the top gives one more bit.
Increment(bits) ==
    IF \A i \in 1..Len(bits) : bits[i] = 1
    THEN <<1>> \o [i \in 1..Len(bits) |-> 0]
    ELSE LET z == CHOOSE i \in 1..Len(bits) :
                      /\ bits[i] = 0
                      /\ \A j \in (i + 1)..Len(bits) : bits[j] = 1
         IN  [i \in 1..Len(bits) |->
                 IF i < z THEN bits[i] ELSE IF i = z THEN 1 ELSE 0]

\* Round to nearest, ties to even: `bits` are the significand bits kept,
\* guard the first bit dropped, sticky whether anything nonzero follows it.
RoundNearestEven(bits, guard, sticky, exp) ==
    IF guard = 1 /\ (sticky \/ bits[Len(bits)] = 1)
    THEN LET up == Increment(bits)
         IN  IF Len(up) > Len(bits)
             THEN Double(SubSeq(up, 1, Len(bits)), exp + 1)
             ELSE Double(up, exp)
    ELSE Double(bits, exp)

\* How often p is doubled before it reaches t.
RECURSIVE LeadShift(_, _)
LeadShift(p, t) == IF p >= t THEN 0 ELSE 1 + LeadShift(2 * p, t)

\* p / t for 1 <= p <= t.
DoubleDiv(p, t) ==
    LET s == LeadShift(p, t)
        q == DivBits(p * 2^s - t, t, MantissaBits - 1)
        g == DivBits(q.rem, t, 1)
    IN  RoundNearestEven(<<1>> \o q.bits, g.bits[1], g.rem # 0, 0 - s)

\* The integer that bits a..b spell, most significant first.
RECURSIVE BitsValue(_, _, _)
BitsValue(bits, a, b) ==
    IF a > b THEN 0
    ELSE IF a = b THEN bits[a]
    ELSE LET m == (a + b) \div 2
         IN  BitsValue(bits, a, m) * 2^(b - m) + BitsValue(bits, m + 1, b)

\* The n low bits of v, most significant first.
ToBits(v, n) == [i \in 1..n |-> (v \div 2^(n - i)) % 2]

\* The number of bits of v >= 1.
BitLength(v) == CHOOSE n \in 1..31 : 2^(n - 1) <= v /\ (n = 31 \/ v < 2^n)

\* The exact product of a significand of MantissaBits bits and a small
\* integer c < 2^10, most significant bit first: the significand is
\* multiplied in three limbs (13, 20 and 20 bits), the carries going up.
MulBits(bits, c) ==
    LET low  == BitsValue(bits, 34, 53) * c
        mid  == BitsValue(bits, 14, 33) * c + low \div 2^20
        high == BitsValue(bits, 1, 13) * c + mid \div 2^20
    IN  ToBits(high, BitLength(high)) \o ToBits(mid % 2^20, 20) \o ToBits(low % 2^20, 20)

\* x * c for a small positive integer c.
DoubleMul(x, c) ==
    LET prod == MulBits(x.bits, c)
        more == Len(prod) - MantissaBits
    IN  IF more = 0
        THEN Double(prod, x.exp)
        ELSE RoundNearestEven(SubSeq(prod, 1, MantissaBits),
                              prod[MantissaBits + 1],
                              \E i \in (MantissaBits + 2)..Len(prod) : prod[i] = 1,
                              x.exp + more)

\* int(x) for 0 < x < 2^MantissaBits: the bits above the binary point.
IntOf(x) == IF x.exp < 0 THEN 0 ELSE BitsValue(x.bits, 1, x.exp + 1)

\* int(processed / total_positions * 100), lines 215 and 339, and
\* int(line_number / total_lines * 100) in generate_json_from_epd.
PercentOf(p, t) == IntOf(DoubleMul(DoubleDiv(p, t), 100))

\* The percentages of every file of at most MaxTotal lines, computed once.
Percents == [t \in 1..MaxTotal |-> [p \in 1..t |-> PercentOf(p, t)]]

Percent(p, t) ==
    IF t \in 1..MaxTotal /\ p \in 1..t THEN Percents[t][p] ELSE PercentOf(p, t)

ProgressEvent(pct, p, t, k) == [pct |-> pct, processed |-> p, total |-> t, kept |-> k]

\* One invocation of a log callback: the message, the line number it carries
\* (0 when it carries none) and whether the callback returned.
LogEvent(kind, n, ok) == [kind |-> kind, line |-> n, ok |-> ok]

\* run(): the outer `except Exception` - log "Fatal error" and return.  A
\* raise of this log call is swallowed, so its outcome is not a choice.
FatalLog(l) == Append(l, LogEvent("fatal", 0, TRUE))


\* What run() did with one line it read: how it was classified, the mate
\* distance extracted for it, whether fout.write returned for it, and which
\* call, if any, raised into the `except` of line 343.
Handled(n, how, mate, written, cause) ==
    [line |-> n, how |-> how, mate |-> mate, written |-> written, cause |-> cause]

\* No extraction is being looked at on its own.
ExtractIdle ==
    /\ info_score = None
    /\ mate_found = None
    /\ strategies = {}
    /\ xpc = "idle"

\* No run of the Filter Pipeline is being looked at.
RunIdle ==
    /\ lines = <<>>
    /\ mate_limit = 0
    /\ add_solution = FALSE
    /\ stop = FALSE
    /\ pc = "idle"
    /\ result = ""
    /\ engine = "none"
    /\ opened = 0
    /\ threads_option = ""
    /\ total_positions = 0
    /\ processed = 0
    /\ kept = 0
    /\ outfile = [created |-> FALSE, lines |-> <<>>]
    /\ requests = <<>>
    /\ inflight = {}
    /\ log = <<>>
    /\ progress = <<>>
    /\ eta = <<>>
    /\ last = Handled(0, "none", None, FALSE, "")
    /\ cancel_btn = FALSE
    /\ clicked = [pc |-> "", line |-> 0]
    /\ polls = 0
    /\ cancelledAt = 0 - 1

\* No annotation is being looked at on its own.
AnnotateIdle ==
    /\ pv_raw = <<>>
    /\ mate_index = None
    /\ annotated_move_ucis = <<>>
    /\ board_moves = {}
    /\ board_cp_moves = {}
    /\ walk_raised = FALSE
    /\ apc = "idle"

\* How one call of the builder ended: "entry" (an entry was returned),
\* "none" (None was returned) or "raised" (an exception left the call), the
\* entry, and the log calls made, each with whether it returned.
Outcome(status, entry, logged) == [status |-> status, entry |-> entry, logged |-> logged]

\* No call of the builder is being looked at on its own.
BuilderIdle ==
    /\ raw_line = None
    /\ line_number = 0
    /\ fix_move_order = FALSE
    /\ log_faults = "none"
    /\ built = Outcome("", None, <<>>)
    /\ bpc = "idle"

\* No call of generate_json_from_epd is being looked at.
ExportIdle ==
    /\ source = <<>>
    /\ json_fix = FALSE
    /\ stop_event = FALSE
    /\ total_lines = 0
    /\ json_processed = 0
    /\ json_kept = 0
    /\ puzzles = <<>>
    /\ cancelled = FALSE
    /\ handled = <<>>
    /\ json_progress = <<>>
    /\ returned = None
    /\ dest = "untouched"
    /\ finished = <<>>
    /\ cb_raised = FALSE
    /\ jpc = "idle"

\* No pair of runs is being looked at.
SignIdle ==
    /\ sign_mate = 0
    /\ sign_limit = 0
    /\ sign_pv = <<>>
    /\ sign_add = FALSE
    /\ out_first = None
    /\ out_second = None
    /\ spc = "idle"

\* No iteration is being looked at.
BarIdle ==
    /\ bar_total = 0
    /\ bar_processed = 0
    /\ bar_kept = 0
    /\ bar_event = None
    /\ gpc = "idle"

\* No line is being followed through both pipelines.
TripIdle ==
    /\ trip_line = <<>>
    /\ trip_ok = FALSE
    /\ trip_mate = 0
    /\ trip_limit = 0
    /\ trip_pv = <<>>
    /\ trip_add = FALSE
    /\ trip_analysed = None
    /\ trip_written = None
    /\ trip_kept = 0
    /\ trip_read = None
    /\ tpc = "idle"

\* ------------------------------------------------------------------- Init
\* The state when start_analyze has built the thread: stop_event cleared,
\* nothing run yet.
Init ==
    /\ lines \in Files
    /\ mate_limit \in 0..MaxLimit
    /\ add_solution \in BOOLEAN
    /\ stop = FALSE
    /\ pc = "start"
    /\ result = ""
    /\ engine = "none"
    /\ opened = 0
    /\ threads_option = ""
    /\ total_positions = 0
    /\ processed = 0
    /\ kept = 0
    /\ outfile = [created |-> FALSE, lines |-> <<>>]
    /\ requests = <<>>
    /\ inflight = {}
    /\ log = <<>>
    /\ progress = <<>>
    /\ eta = <<>>
    /\ last = Handled(0, "none", None, FALSE, "")
    /\ cancel_btn = TRUE
    /\ clicked = [pc |-> "", line |-> 0]
    /\ polls = 0
    /\ cancelledAt = 0 - 1
    /\ ExtractIdle
    /\ AnnotateIdle
    /\ BuilderIdle
    /\ ExportIdle
    /\ SignIdle
    /\ BarIdle
    /\ TripIdle

\* ---------------------------------------------------------------- actions
\* run(), lines 163-173: log the start, launch the engine, configure it.
\* A raise of the log callback or of popen_uci reaches the outer handler; a
\* raise of engine.configure is caught at line 171, whose handler is `pass`.
StartEngine ==
    /\ UNCHANGED others
    /\ pc = "start"
    /\ \E okLog \in BOOLEAN, okPopen \in BOOLEAN :
         LET l1 == Append(log, LogEvent("starting", 0, okLog))
         IN  IF okLog /\ okPopen
             THEN /\ log' = l1
                  /\ engine' = "open"
                  /\ opened' = opened + 1
                  /\ threads_option' \in {"applied", "rejected"}
                  /\ pc' = "count"
                  /\ result' = result
             ELSE /\ okLog => ~okPopen
                  /\ log' = FatalLog(l1)
                  /\ pc' = "done"
                  /\ result' = "failed"
                  /\ UNCHANGED <<engine, opened, threads_option>>
    /\ UNCHANGED <<lines, mate_limit, add_solution, stop, total_positions,
                   processed, kept, outfile, requests, inflight, progress,
                   eta, last, cancel_btn, clicked, polls, cancelledAt>>

\* run(), lines 175-194: the counting pass, the empty-input exit and the
\* output directory.  how names the first call that raises, if any.
CountLines ==
    /\ UNCHANGED others
    /\ UNCHANGED threads_option
    /\ pc = "count"
    /\ \E how \in {"ok", "open", "log", "makedirs"} :
         LET n == Len(lines)
         IN  CASE how = "open" ->
                    /\ log' = FatalLog(log)
                    /\ pc' = "done" /\ result' = "failed"
                    /\ UNCHANGED <<engine, total_positions>>
               [] how # "open" /\ n = 0 ->
                    /\ how \in {"ok", "log"}
                    /\ IF how = "ok"
                       THEN /\ log' = Append(log, LogEvent("empty", 0, TRUE))
                            /\ engine' = "quit"
                            /\ pc' = "done" /\ result' = "empty"
                       ELSE /\ log' = FatalLog(Append(log, LogEvent("empty", 0, FALSE)))
                            /\ pc' = "done" /\ result' = "failed"
                            /\ engine' = engine
                    /\ UNCHANGED total_positions
               [] how # "open" /\ n > 0 ->
                    /\ total_positions' = n
                    /\ engine' = engine
                    /\ CASE how = "ok" ->
                              /\ log' = Append(log, LogEvent("total", 0, TRUE))
                              /\ pc' = "open" /\ result' = result
                         [] how = "log" ->
                              /\ log' = FatalLog(Append(log, LogEvent("total", 0, FALSE)))
                              /\ pc' = "done" /\ result' = "failed"
                         [] how = "makedirs" ->
                              /\ log' = FatalLog(Append(log, LogEvent("total", 0, TRUE)))
                              /\ pc' = "done" /\ result' = "failed"
    /\ UNCHANGED <<lines, mate_limit, add_solution, stop, opened, processed,
                   kept, outfile, requests, inflight, progress, eta, last, cancel_btn, clicked,
                   polls, cancelledAt>>

\* run(), lines 196-199: reset the counters and open both files; opening
\* the output for writing creates or truncates it.
OpenFiles ==
    /\ UNCHANGED others
    /\ UNCHANGED threads_option
    /\ pc = "open"
    /\ processed' = 0
    /\ kept' = 0
    /\ \E how \in {"ok", "fin", "fout"} :
         IF how = "ok"
         THEN /\ outfile' = [created |-> TRUE, lines |-> <<>>]
              /\ pc' = "loop"
              /\ UNCHANGED <<log, result>>
         ELSE /\ log' = FatalLog(log)
              /\ pc' = "done" /\ result' = "failed"
              /\ UNCHANGED outfile
    /\ UNCHANGED <<lines, mate_limit, add_solution, stop, engine, opened,
                   total_positions, requests, inflight, progress, eta, last, cancel_btn, clicked,
                   polls, cancelledAt>>


\* run(), lines 234-239: chess.Board(candidate_fen) returns for a valid
\* position and raises for anything else.
ParsesAnything(kind) == TRUE

Parses(kind) == kind = "valid"

\* run(), line 244: the one engine.analyse call made for line n.
IssueTwice(reqs, n) == Append(Append(reqs, n), n)

Issue(reqs, n) == Append(reqs, n)

\* run(), `for line in fin` at end of file: the loop ends without a poll.
LoopExit ==
    /\ UNCHANGED others
    /\ UNCHANGED threads_option
    /\ pc = "loop"
    /\ processed = Len(lines)
    /\ pc' = "close"
    /\ UNCHANGED <<lines, mate_limit, add_solution, stop, result, engine,
                   opened, total_positions, processed, kept, outfile,
                   requests, inflight, log, progress, eta, last, cancel_btn, clicked, polls,
                   cancelledAt>>

\* run(), lines 200-203: a line is available and the poll finds the stop
\* event set: log the cancellation and break.
PollCancelled ==
    /\ UNCHANGED others
    /\ UNCHANGED threads_option
    /\ pc = "loop"
    /\ processed < Len(lines)
    /\ stop
    /\ polls' = polls + 1
    /\ cancelledAt' = processed
    /\ \E ok \in BOOLEAN :
         IF ok
         THEN /\ log' = Append(log, LogEvent("cancelled", 0, TRUE))
              /\ pc' = "close"
              /\ result' = result
         ELSE /\ log' = FatalLog(Append(log, LogEvent("cancelled", 0, FALSE)))
              /\ pc' = "done"
              /\ result' = "failed"
    /\ UNCHANGED <<lines, mate_limit, add_solution, stop, engine, opened,
                   total_positions, processed, kept, outfile, requests,
                   inflight, progress, eta, last, cancel_btn, clicked>>

\* run(), lines 200-244: the poll finds the event clear; the line is counted,
\* progress and ETA are reported (a raise of either callback is swallowed),
\* a blank line is passed over, an invalid position is logged and skipped,
\* and for a valid one engine.analyse is called and the worker blocks in it.
NextLine ==
    /\ UNCHANGED others
    /\ UNCHANGED threads_option
    /\ pc = "loop"
    /\ processed < Len(lines)
    /\ ~stop
    /\ LET n == processed + 1
           kind == lines[n]
       IN  /\ polls' = polls + 1
           /\ processed' = n
           /\ progress' = Append(progress,
                  ProgressEvent(Percent(n, total_positions), n, total_positions, kept))
           /\ eta' = Append(eta, [final |-> FALSE, remaining |-> total_positions - n])
           /\ CASE kind = "blank" ->
                     /\ last' = Handled(n, "blank", None, FALSE, "")
                     /\ pc' = "loop"
                     /\ UNCHANGED <<log, result, requests, inflight>>
                [] kind # "blank" /\ ~Parses(kind) ->
                     /\ last' = Handled(n, "invalid", None, FALSE, "")
                     /\ UNCHANGED <<requests, inflight>>
                     /\ \E ok \in BOOLEAN :
                          IF ok
                          THEN /\ log' = Append(log, LogEvent("invalid", n, TRUE))
                               /\ pc' = "loop"
                               /\ result' = result
                          ELSE /\ log' = FatalLog(Append(log, LogEvent("invalid", n, FALSE)))
                               /\ pc' = "done"
                               /\ result' = "failed"
                [] kind # "blank" /\ Parses(kind) ->
                     /\ requests' = Issue(requests, n)
                     /\ inflight' = inflight \cup {n}
                     /\ pc' = "analyse"
                     /\ UNCHANGED <<log, result, last>>
    /\ UNCHANGED <<lines, mate_limit, add_solution, stop, engine, opened,
                   total_positions, kept, outfile, cancel_btn, clicked, cancelledAt>>

\* run(), line 346 / end of the try body: where the loop goes after a line's
\* analysis, whether it ended normally or in the `except` of line 343.
BreakAfterLine == "close"

ContinueAfterLine == "loop"

\* run(), lines 244-346: engine.analyse returns or raises; the mate distance
\* is extracted and tested; a qualifying line is annotated, written and
\* counted.  Any raise inside the try body (the engine, the "Added solution"
\* log, fout.write, the "Kept line" log) lands in the `except` of line 343,
\* which logs "Engine error" and continues; a raise of that log call reaches
\* the outer handler.
AnalyseReturn ==
    /\ UNCHANGED others
    /\ UNCHANGED threads_option
    /\ pc = "analyse"
    /\ \E raised \in BOOLEAN :
       \E mate \in (IF raised THEN {None} ELSE ExtractedMates) :
       \E pv \in (IF ~raised /\ KeepTest(mate, mate_limit) THEN Pvs ELSE {<<>>}) :
         LET n == processed
             qual == ~raised /\ KeepTest(mate, mate_limit)
             sol == qual /\ SolAppended(pv, add_solution)
         IN
         \* the outcome of a call that is not made is not a choice
         \E okAdded \in (IF sol THEN BOOLEAN ELSE {TRUE}) :
         \E okWrite \in (IF qual /\ okAdded THEN BOOLEAN ELSE {TRUE}) :
           LET written == qual /\ okAdded /\ okWrite
           IN
           \E okKept \in (IF written THEN BOOLEAN ELSE {TRUE}) :
             LET cause == CASE raised -> "engine"
                            [] qual /\ ~okAdded -> "added log"
                            [] qual /\ okAdded /\ ~okWrite -> "write"
                            [] written /\ ~okKept -> "kept log"
                            [] OTHER -> ""
                 caught == cause # ""
             IN
             \E okErr \in (IF caught THEN BOOLEAN ELSE {TRUE}) :
               LET l1 == IF sol THEN Append(log, LogEvent("added", n, okAdded)) ELSE log
                   l2 == IF written THEN Append(l1, LogEvent("kept", n, okKept)) ELSE l1
                   l3 == IF caught
                         THEN Append(l2, LogEvent("engine error", n, okErr)) ELSE l2
                   newkept == IF written THEN kept + 1 ELSE kept
               IN  /\ inflight' = inflight \ {n}
                   /\ outfile' = IF written
                                 THEN [outfile EXCEPT !.lines =
                                        Append(@, OutputLine(n, mate, pv, add_solution))]
                                 ELSE outfile
                   /\ kept' = newkept
                   /\ progress' = IF written /\ okKept
                                  THEN Append(progress,
                                         ProgressEvent(Percent(n, total_positions), n,
                                                       total_positions, newkept))
                                  ELSE progress
                   /\ last' = Handled(n, IF raised THEN "raised" ELSE "analysed",
                                       mate, written, cause)
                   /\ IF caught /\ ~okErr
                      THEN /\ log' = FatalLog(l3)
                           /\ pc' = "done"
                           /\ result' = "failed"
                      ELSE /\ log' = l3
                           /\ pc' = ContinueAfterLine
                           /\ result' = result
    /\ UNCHANGED <<lines, mate_limit, add_solution, stop, engine, opened,
                   total_positions, processed, requests, eta, cancel_btn, clicked,
                   polls, cancelledAt>>

\* run(), lines 348-364: quit the engine (a raise is swallowed), log the
\* summary, then the final progress (100) and the final ETA (0).  A raise of
\* the summary log reaches the outer handler before the final events.
CloseEngine ==
    /\ UNCHANGED others
    /\ UNCHANGED threads_option
    /\ pc = "close"
    /\ engine' = "quit"
    /\ pc' = "done"
    /\ \E ok \in BOOLEAN :
         IF ok
         THEN /\ log' = Append(log, LogEvent("finished", 0, TRUE))
              /\ progress' = Append(progress,
                     ProgressEvent(100, processed, total_positions, kept))
              /\ eta' = Append(eta, [final |-> TRUE, remaining |-> 0])
              /\ result' = IF cancelledAt >= 0 THEN "cancelled" ELSE "completed"
         ELSE /\ log' = FatalLog(Append(log, LogEvent("finished", 0, FALSE)))
              /\ result' = "failed"
              /\ UNCHANGED <<progress, eta>>
    /\ UNCHANGED <<lines, mate_limit, add_solution, stop, opened,
                   total_positions, processed, kept, outfile, requests,
                   inflight, last, cancel_btn, clicked, polls, cancelledAt>>

\* MainWindow.cancel_analysis, a click on the enabled cancel button: set the
\* stop event, show "Cancellation requested..." (the window's own append_log,
\* not the thread's callback) and disable the button.
Cancel ==
    /\ UNCHANGED others
    /\ UNCHANGED threads_option
    /\ cancel_btn
    /\ stop' = TRUE
    /\ cancel_btn' = FALSE
    /\ clicked' = [pc |-> pc, line |-> processed]
    /\ UNCHANGED <<lines, mate_limit, add_solution, pc, result, engine, opened,
                   total_positions, processed, kept, outfile, requests,
                   inflight, log, progress, eta, last, polls, cancelledAt>>

Next ==
    \/ StartEngine
    \/ CountLines
    \/ OpenFiles
    \/ LoopExit
    \/ PollCancelled
    \/ NextLine
    \/ AnalyseReturn
    \/ CloseEngine
    \/ Cancel

Spec == Init /\ [][Next]_vars


\* ============================================================ properties
\* Helpers of the properties below (none of them is used by an action).
Magnitude(mate) == Abs(CHOOSE m \in mate : TRUE)
InRange(mate) == mate # None /\ 1 <= Magnitude(mate) /\ Magnitude(mate) <= mate_limit
Logged(kind, n) == \E i \in 1..Len(log) : log[i].kind = kind /\ log[i].line = n
LoggedOk(kind, n) ==
    \E i \in 1..Len(log) : log[i].kind = kind /\ log[i].line = n /\ log[i].ok
Times(seq, x) == Cardinality({i \in 1..Len(seq) : seq[i] = x})
WrittenFor(n) == \E i \in 1..Len(outfile.lines) : outfile.lines[i].src = n
Streaming == outfile.created
FinalProgress ==
    /\ Len(progress) > 0
    /\ progress[Len(progress)] = ProgressEvent(100, processed, total_positions, kept)
FinalEta == Len(eta) > 0 /\ eta[Len(eta)] = [final |-> TRUE, remaining |-> 0]

\* C1: on every exit path of a run that started the engine, engine.quit has
\* been called when the worker terminates.
C1_EngineReleasedOnEveryExit ==
    (pc = "done" /\ opened > 0) => engine = "quit"

\* C2: kept <= processed <= total in every state, and every line in the
\* output was written for an extracted mate distance m with
\* 1 <= |m| <= mate_limit, its theme operand (when present) recording |m|.
C2_KeptWithinLimit ==
    /\ kept <= processed
    /\ processed <= total_positions
    /\ Len(outfile.lines) = kept
    /\ \A i \in 1..Len(outfile.lines) :
         LET th == outfile.lines[i].theme
         IN  th # None => \A d \in th : 1 <= d /\ d <= mate_limit
    /\ last.written =>
         /\ InRange(last.mate)
         /\ kept >= 1
         /\ outfile.lines[kept].src = last.line
         /\ outfile.lines[kept].theme \in {None, Some(Magnitude(last.mate))}

C2_Witness ==
    /\ kept = 2
    /\ last.written
    /\ outfile.lines[1].theme # None
    /\ outfile.lines[2].theme = Some(mate_limit)

\* C3: the stop event is polled once per line read; once a poll has seen it
\* set nothing more is read, analysed or counted, the cancellation is logged,
\* and the run ends with the engine shut down and a final progress event
\* carrying the partial counts.
C3_CancelledRunCleansUp ==
    /\ polls = processed + (IF cancelledAt >= 0 THEN 1 ELSE 0)
    /\ cancelledAt >= 0 =>
         /\ processed = cancelledAt
         /\ inflight = {}
         /\ Logged("cancelled", 0)
         /\ pc \in {"close", "done"}
         /\ pc = "done" => (engine = "quit" /\ FinalProgress)

\* C4: every run that entered Streaming ends with a final progress event of
\* 100 percent and a final ETA event of 0, whatever path leaves Streaming.
C4_FinalEventsOnEveryPath ==
    (pc = "done" /\ Streaming) => (FinalProgress /\ FinalEta)

\* C5: one run opens exactly one engine session, never has two analyse
\* requests outstanding, issues a line's request only when the previous one
\* has returned or raised, and asks the engine at most once per line.
C5_OneSessionOneRequest ==
    /\ opened <= 1
    /\ pc \notin {"start", "done"} => (opened = 1 /\ engine = "open")
    /\ Cardinality(inflight) <= 1
    /\ \A i \in 1..Len(requests) :
         /\ requests[i] <= processed
         /\ Times(requests, requests[i]) = 1
         /\ i > 1 => requests[i - 1] < requests[i]
    /\ inflight # {} =>
         /\ pc = "analyse"
         /\ Len(requests) > 0
         /\ inflight = {requests[Len(requests)]}
    /\ pc = "analyse" => inflight = {processed}

C5_Witness ==
    /\ requests = <<1, 2>>
    /\ inflight = {2}
    /\ opened = 1

\* C6: a stop event set while line k is being processed (after its poll)
\* changes nothing about line k: the analyse call in flight completes, a
\* qualifying line is written and counted as with no cancellation, and the
\* cancellation is observed only by the poll for line k+1.
C6_CancelIsCooperative ==
    /\ (last.how = "analysed" /\ last.cause = "") => (last.written <=> InRange(last.mate))
    /\ last.written => WrittenFor(last.line)
    /\ clicked.pc = "analyse" =>
         /\ clicked.line >= 1
         /\ cancelledAt \in {0 - 1, clicked.line}
         /\ pc = "analyse" => (processed = clicked.line /\ inflight = {clicked.line})
         /\ pc # "analyse" =>
              /\ processed = clicked.line
              /\ last.line = clicked.line
              /\ last.how \in {"analysed", "raised"}
    /\ cancelledAt >= 0 => (stop /\ inflight = {} /\ clicked.line <= cancelledAt)
    /\ result = "cancelled" => cancelledAt >= 0

C6_Witness ==
    /\ clicked = [pc |-> "analyse", line |-> 1]
    /\ last.line = 1
    /\ last.written
    /\ kept = 1
    /\ cancelledAt = 1
    /\ result = "cancelled"


\* C7 (as claimed): a line whose position does not parse is counted in
\* processed, is neither analysed nor written, is logged with its line
\* number, and never ends the run: every later line is still processed
\* unless the run is cancelled (the loop is left after this line only at the
\* end of the file).
C7_InvalidLineNeverEndsRun ==
    \A n \in 1..processed :
      lines[n] = "invalid" =>
        /\ Times(requests, n) = 0
        /\ ~WrittenFor(n)
        /\ Logged("invalid", n)
        /\ n = processed =>
             /\ pc # "analyse" /\ inflight = {}
             /\ last = Handled(n, "invalid", None, FALSE, "")
             /\ (pc \in {"close", "done"} /\ cancelledAt < 0) => n = Len(lines)

\* C7 (amended): as above, except that the run goes on to the later lines
\* when the "Skipping invalid FEN" log call returns; when that call raises,
\* the exception reaches the outer handler and the run ends Failed at this line.
C7_InvalidLineSkipped ==
    \A n \in 1..processed :
      lines[n] = "invalid" =>
        /\ Times(requests, n) = 0
        /\ ~WrittenFor(n)
        /\ Logged("invalid", n)
        /\ n = processed =>
             /\ pc # "analyse" /\ inflight = {}
             /\ last = Handled(n, "invalid", None, FALSE, "")
             /\ (LoggedOk("invalid", n) /\ pc \in {"close", "done"} /\ cancelledAt < 0)
                   => n = Len(lines)
        /\ ~LoggedOk("invalid", n) =>
              (pc = "done" /\ result = "failed" /\ processed = n)

C7_Witness ==
    /\ lines = <<"invalid", "valid">>
    /\ LoggedOk("invalid", 1)
    /\ requests = <<2>>
    /\ kept = 1
    /\ pc = "done"
    /\ result = "completed"

\* C8 (as claimed): after a failed analyse call the request is not issued
\* again, the line is not written, the failure is logged with the line
\* number, the session stays open, and the following lines are analysed
\* with the same session.
C8_EngineErrorNeverEndsRun ==
    last.cause = "engine" =>
      /\ last.how = "raised" /\ ~last.written
      /\ Times(requests, last.line) = 1
      /\ ~WrittenFor(last.line)
      /\ Logged("engine error", last.line)
      /\ pc \in {"loop", "analyse"} => (engine = "open" /\ opened = 1)
      /\ pc = "analyse" => (processed > last.line /\ inflight = {processed})
      /\ (pc \in {"close", "done"} /\ cancelledAt < 0) => processed = Len(lines)

\* C8 (amended): as above, except that the following lines are analysed when
\* the "Engine error" log call returns; when that call raises, the exception
\* reaches the outer handler and the run ends Failed at this line.
C8_EngineErrorSkipsLine ==
    last.cause = "engine" =>
      /\ last.how = "raised" /\ ~last.written
      /\ Times(requests, last.line) = 1
      /\ ~WrittenFor(last.line)
      /\ Logged("engine error", last.line)
      /\ pc \in {"loop", "analyse"} => (engine = "open" /\ opened = 1)
      /\ pc = "analyse" => (processed > last.line /\ inflight = {processed})
      /\ (LoggedOk("engine error", last.line) /\ pc \in {"close", "done"} /\ cancelledAt < 0)
            => processed = Len(lines)
      /\ ~LoggedOk("engine error", last.line) =>
            (pc = "done" /\ result = "failed" /\ processed = last.line)

C8_Witness ==
    /\ last.cause = "engine"
    /\ last.line = 1
    /\ LoggedOk("engine error", 1)
    /\ requests = <<1, 2>>
    /\ pc = "analyse"
    /\ engine = "open"
    /\ opened = 1

\* C9: a failure of fout.write for a kept line is fatal: no later line is
\* analysed or written and the run ends Failed with the engine released.
C9_WriteFailureIsFatal ==
    last.cause = "write" =>
      (pc = "done" /\ result = "failed" /\ engine = "quit")

\* C10: when the counting pass finds no line, the run ends before Streaming:
\* the empty input is logged, nothing is analysed, the output file is not
\* created or truncated, and the engine is shut down.
C10_EmptyInputReleasesEngine ==
    (pc = "done" /\ Logged("empty", 0)) =>
      /\ requests = <<>>
      /\ processed = 0
      /\ ~outfile.created
      /\ engine = "quit"


\* C11: a line whose position parsed and whose analysis, annotation and
\* write met no exception is written iff a mate distance m was extracted
\* with 1 <= |m| <= mate_limit; with mate_limit = 0 nothing is ever kept, and
\* a mate distance equal to the limit (either sign) is kept.
C11_KeptIffInRange ==
    /\ (last.how = "analysed" /\ last.cause = "") =>
         /\ last.written <=>
              (last.mate # None /\ \A m \in last.mate :
                   (1 <= m /\ m <= mate_limit) \/ (1 <= 0 - m /\ 0 - m <= mate_limit))
         /\ last.written <=> WrittenFor(last.line)
         /\ (mate_limit >= 1 /\ last.mate \in {Some(mate_limit), Some(0 - mate_limit)})
               => last.written
    /\ mate_limit = 0 => (kept = 0 /\ outfile.lines = <<>> /\ ~last.written)

C11_Witness ==
    /\ mate_limit = MaxLimit
    /\ last.how = "analysed"
    /\ last.cause = ""
    /\ last.mate = Some(MaxLimit)
    /\ last.written
    /\ WrittenFor(last.line)


\* ==================================================== the mate extraction
\* str(score) as far as the expression of strategy 3 can tell texts apart: a
\* leading word, what stands between the word and the number, an optional
\* sign, and the digits (None when there are none).  python-chess renders a
\* Mate as "#-4" and its repr as "Mate(-4)"; a bare UCI score reads "mate -4".
RenderWords == {"mate", "Mate", "#", "cp"}
RenderGaps  == {"", " ", "("}
RenderSigns == {"", "+", "-"}
Renderings ==
    [tag : {"str"}, word : RenderWords, gap : RenderGaps, sign : RenderSigns,
     digits : {None} \cup {Some(n) : n \in 0..MaxRendered}]

\* re.search(r'mate\s*([+-]?\d+)', s) followed by int(m.group(1)): the
\* expression is case-sensitive, allows only white space before the number,
\* and needs at least one digit; int() honours the sign.
SearchMate(s) ==
    IF s.word = "mate" /\ s.gap \in {"", " "} /\ s.digits # None
    THEN LET n == CHOOSE d \in s.digits : TRUE
         IN  Some(IF s.sign = "-" THEN 0 - n ELSE n)
    ELSE None

\* A score object before any strategy has looked at it: str(score) raises or
\* returns a rendering.
RawScores ==
    [direct : {Raises} \cup {Yields(o) : o \in OptMates},
     pov    : {Raises, Absent} \cup {Yields(o) : o \in OptMates},
     str    : {Raises} \cup Renderings]

\* The three faces run() probes, strategy 3 being the search on str(score).
Probed(raw) ==
    [direct |-> raw.direct,
     pov    |-> raw.pov,
     text   |-> IF raw.str.tag = "raise" THEN Raises
                ELSE Yields(SearchMate(raw.str))]

ExtractInit ==
    /\ RunIdle
    /\ AnnotateIdle
    /\ BuilderIdle
    /\ ExportIdle
    /\ SignIdle
    /\ BarIdle
    /\ TripIdle
    /\ info_score \in {None} \cup {Some(r) : r \in RawScores}
    /\ mate_found = None
    /\ strategies = {}
    /\ xpc = "score"

\* run(), lines 244-281: `score = info.get('score')` to the end of strategy 3.
Extract ==
    /\ xpc = "score"
    /\ LET sc == IF info_score = None THEN None
                 ELSE Some(Probed(CHOOSE r \in info_score : TRUE))
       IN  /\ mate_found' = MateExtract(sc)
           /\ strategies' = Consulted(sc)
    /\ xpc' = "extracted"
    /\ UNCHANGED <<info_score, runVars, annotateVars, builderVars, exportVars,
                   signVars, barVars, tripVars>>

ExtractNext == Extract

ExtractSpec == ExtractInit /\ [][ExtractNext]_vars

\* A strategy yields a value when its call returns an integer.
YieldsValue(face) == face.tag = "value" /\ face.val # None

\* C19: the extraction returns the value of the first of (1) score.mate(),
\* (2) score.pov(turn).mate(), (3) the search for 'mate <signed integer>' in
\* str(score) that yields one; strategy 2 is consulted only when strategy 1
\* yielded nothing or raised, strategy 3 only when 1 and 2 did; the result is
\* absent iff none yields; a score whose only answer is the rendering
\* "mate -4" gives -4.
C19_FirstStrategyWins ==
    (xpc = "extracted" /\ info_score # None) =>
        LET raw == CHOOSE r \in info_score : TRUE
            f1  == raw.direct
            f2  == raw.pov
            f3  == Probed(raw).text
        IN  /\ mate_found = IF YieldsValue(f1) THEN f1.val
                            ELSE IF YieldsValue(f2) THEN f2.val
                            ELSE IF YieldsValue(f3) THEN f3.val
                            ELSE None
            /\ 1 \in strategies
            /\ 2 \in strategies <=> ~YieldsValue(f1)
            /\ 3 \in strategies <=> (~YieldsValue(f1) /\ ~YieldsValue(f2))
            /\ mate_found = None <=>
                   (~YieldsValue(f1) /\ ~YieldsValue(f2) /\ ~YieldsValue(f3))
            /\ ( /\ ~YieldsValue(f1)
                 /\ ~YieldsValue(f2)
                 /\ raw.str.tag = "str"
                 /\ raw.str.word = "mate"
                 /\ raw.str.gap = " "
                 /\ raw.str.sign = "-"
                 /\ raw.str.digits = Some(4) )
               => mate_found = Some(0 - 4)

C19_Witness ==
    /\ xpc = "extracted"
    /\ info_score # None
    /\ \A raw \in info_score :
         /\ raw.direct = Raises
         /\ raw.pov = Absent
         /\ raw.str.tag = "str"
         /\ raw.str.word = "mate"
         /\ raw.str.gap = " "
         /\ raw.str.sign = "-"
         /\ raw.str.digits = Some(4)
    /\ strategies = {1, 2, 3}
    /\ mate_found = Some(0 - 4)


\* ========================================================= the annotation
\* The principal variations of the annotation on its own.
WalkPvs == UNION {[1..n -> MoveKinds] : n \in 0..MaxWalk}

AnnotateInit ==
    /\ RunIdle
    /\ ExtractIdle
    /\ BuilderIdle
    /\ ExportIdle
    /\ SignIdle
    /\ BarIdle
    /\ TripIdle
    /\ pv_raw \in WalkPvs
    /\ mate_index = None
    /\ annotated_move_ucis = <<>>
    /\ board_moves = {}
    /\ board_cp_moves = {}
    /\ walk_raised = FALSE
    /\ apc = "walk"

\* run(), lines 288-320, for a line that passed the keep test: walk pv_raw
\* on the scratch board, then mark one token of the copy of move_ucis.
Annotate ==
    /\ apc = "walk"
    /\ mate_index' = MateIndex(pv_raw)
    /\ annotated_move_ucis' = Annotated(pv_raw)
    /\ board_moves' = PushedOnBoard(pv_raw)
    /\ board_cp_moves' = PushedOnCopy(pv_raw)
    /\ walk_raised' = WalkRaises(pv_raw)
    /\ apc' = "annotated"
    /\ UNCHANGED <<pv_raw, runVars, extractVars, builderVars, exportVars,
                   signVars, barVars, tripVars>>

AnnotateNext == Annotate

AnnotateSpec == AnnotateInit /\ [][AnnotateNext]_vars

\* The walk reached checkmate at move i: the push of move i gave a
\* checkmated board and every earlier push gave a board that was not.
MatesAt(i) ==
    /\ i \in 1..Len(pv_raw)
    /\ pv_raw[i] = "mate"
    /\ \A j \in 1..(i - 1) : pv_raw[j] = "quiet"
Marked == {i \in 1..Len(annotated_move_ucis) : annotated_move_ucis[i].hash}

\* C20: for a kept line with a non-empty principal variation exactly one
\* token of annotated_move_ucis carries '#': the one at the checkmate index
\* when the walk reached checkmate, otherwise the last recorded one; every
\* token is the text of the move at its place, the other ones unmarked.
C20_ExactlyOneMarker ==
    (apc = "annotated" /\ Len(pv_raw) > 0) =>
        /\ Len(annotated_move_ucis) >= 1
        /\ Len(annotated_move_ucis) <= Len(pv_raw)
        /\ Cardinality(Marked) = 1
        /\ \A i \in 1..Len(annotated_move_ucis) : annotated_move_ucis[i].mv = i
        /\ \A i \in 1..Len(pv_raw) :
               MatesAt(i) => (mate_index = Some(i) /\ Marked = {i})
        /\ (~\E i \in 1..Len(pv_raw) : MatesAt(i)) =>
               (mate_index = None /\ Marked = {Len(annotated_move_ucis)})
        /\ \A i \in 1..Len(annotated_move_ucis) :
               \A j \in 1..(i - 1) : pv_raw[j] = "quiet"

C20_Witness ==
    /\ apc = "annotated"
    /\ Len(pv_raw) >= 3
    /\ Len(annotated_move_ucis) = 3
    /\ mate_index = None
    /\ Marked = {3}


\* ====================================================== the Puzzle Builder
\* One token of a sol operand: its place in the operand, the text left when
\* the trailing marker characters are removed, and those characters.  The
\* text is named after what the chess library makes of it at the position
\* the replay of _build_puzzle_entry has reached when it meets the token:
\*   ""        nothing is left (the token is markers only)
\*   "junk"    chess.Move.from_uci raises
\*   "illegal" a move that is not in legal_moves there
\*   "legal"   a legal move after which the board is not checkmate
\*   "mating"  a legal move after which the board is checkmate
UciTexts == {"", "junk", "illegal", "legal", "mating"}
Playable == {"legal", "mating"}
Suffixes == {"", "#"}

Token(i, uci, suffix) == [at |-> i, uci |-> uci, suffix |-> suffix]

\* The token lists _extract_solution_moves can return: a token is never the
\* empty string, and a checkmated board has no legal move, so no token is
\* playable after a mating one.
TokenLists ==
    UNION {
        {ts \in [1..n -> [uci : UciTexts, suffix : Suffixes]] :
            /\ \A i \in 1..n : ts[i].uci = "" => ts[i].suffix # ""
            /\ \A i \in 1..n : \A j \in 1..(i - 1) :
                   ts[j].uci = "mating" => ts[i].uci \notin Playable}
        : n \in 0..MaxTokens}

Numbered(ts) == [i \in 1..Len(ts) |-> Token(i, ts[i].uci, ts[i].suffix)]

SolOperands == {Numbered(ts) : ts \in TokenLists}

\* The text of a theme operand as far as _MATE_PATTERN can tell texts apart.
ThemeTexts ==
    {[word |-> "fork", sign |-> "", digits |-> 0]}
    \cup [word : {"mate", "Mate"}, sign : {"", "-"}, digits : 0..MaxTheme]

Colors == {"w", "b"}
Other(c) == IF c = "w" THEN "b" ELSE "w"

\* One stripped, non-blank line of the annotated file, by what
\* _parse_puzzle_from_line looks at: the sol operand (None when _SOL_PATTERN
\* finds none), whether the text before the first ';' has four fields,
\* whether chess.Board accepts it, the side to move of that board, and the
\* theme operand (None when _THEME_PATTERN finds none).  A line that is
\* given up early is listed once, whatever its other parts are.
AnnotatedLine(sol, enough, fen_ok, turn, theme) ==
    [sol |-> sol, enough |-> enough, fen_ok |-> fen_ok, turn |-> turn, theme |-> theme]

AnnotatedLines ==
    {AnnotatedLine(None, TRUE, TRUE, "w", None),
     AnnotatedLine(Some(<<>>), TRUE, TRUE, "w", None)}
    \cup {AnnotatedLine(Some(ts), FALSE, TRUE, "w", None) : ts \in SolOperands \ {<<>>}}
    \cup {AnnotatedLine(Some(ts), TRUE, FALSE, "w", None) : ts \in SolOperands \ {<<>>}}
    \cup {AnnotatedLine(Some(ts), TRUE, TRUE, c, th) :
              ts \in SolOperands \ {<<>>}, c \in Colors,
              th \in {None} \cup {Some(t) : t \in ThemeTexts}}

\* _sanitize_uci: the token without its trailing marker characters.
SanitizeUci(tok) == tok.uci

ExtractMateMovesIgnored(theme) == None

\* _extract_mate_moves: abs(int(...)) of the number after 'mate' (the search
\* ignores case), None when the pattern does not match.
ExtractMateMoves(theme) ==
    IF theme = None THEN None
    ELSE LET t == CHOOSE x \in theme : TRUE
         IN  IF t.word \in {"mate", "Mate"}
             THEN Some(Abs(IF t.sign = "-" THEN 0 - t.digits ELSE t.digits))
             ELSE None

\* A board: the side to move, the side to move of the parsed position, the
\* sol tokens pushed on it (by their places), and whether it is checkmate.
ParsedBoard(turn) == [turn |-> turn, first |-> turn, pushed |-> {}, mate |-> FALSE]

Push(b, tok) ==
    [turn |-> Other(b.turn), first |-> b.first,
     pushed |-> b.pushed \cup {tok.at}, mate |-> tok.uci = "mating"]

\* The side to move that the pushes give; assigning board.turn can make the
\* board differ from it, and then it is another position.
NaturalTurn(b) ==
    IF Cardinality(b.pushed) % 2 = 0 THEN b.first ELSE Other(b.first)

LegalInAnything(b, sol, i) == TRUE

\* `mv in board.legal_moves` for token i of sol: the token's text tells the
\* answer at the position the replay reaches for it, which is the parsed
\* position with the earlier playable tokens pushed.
LegalIn(b, sol, i) ==
    /\ sol[i].uci \in Playable
    /\ ~b.mate
    /\ b.turn = NaturalTurn(b)
    /\ b.pushed = {j \in 1..(i - 1) : sol[j].uci \in Playable}


\* board.fen(): the position and the side to move.
Fen(b) == [side |-> b.turn, first |-> b.first, pushed |-> b.pushed]

SeedElo == 1200

PuzzleEntryCountsSolution(fen, solution, mate_moves) ==
    [fen |-> fen, solution |-> solution, moves_to_mate |-> Len(solution),
     elo |-> SeedElo, solved |-> 0, failed |-> 0]

PuzzleEntry(fen, solution, mate_moves) ==
    [fen |-> fen, solution |-> solution, moves_to_mate |-> mate_moves,
     elo |-> SeedElo, solved |-> 0, failed |-> 0]

\* One log_callback call the builder makes: its message and whether the
\* call is made inside the try of _build_puzzle_entry.
BuilderLog(kind, guarded) == [kind |-> kind, guarded |-> guarded]

\* What the builder does with one line when every log call returns: the
\* entry it returns (None or Some(entry)) and the log calls in order.
Attempt(entry, logs) == [entry |-> entry, logs |-> logs]

\* _build_puzzle_entry, lines 420-439: the replay of the tokens on board_sim.
\* valid holds the places of the tokens in valid_tokens.
RECURSIVE Replay(_, _, _, _, _)
Replay(sol, i, b, valid, logs) ==
    IF i > Len(sol) THEN [board |-> b, valid |-> valid, logs |-> logs]
    ELSE IF SanitizeUci(sol[i]) = ""
         THEN Replay(sol, i + 1, b, valid,
                     Append(logs, BuilderLog("skipping empty move", TRUE)))
    ELSE IF SanitizeUci(sol[i]) = "junk"
         THEN Replay(sol, i + 1, b, valid,
                     Append(logs, BuilderLog("skipping invalid move", TRUE)))
    ELSE IF ~LegalIn(b, sol, i)
         THEN Replay(sol, i + 1, b, valid,
                     Append(logs, BuilderLog("skipping illegal move", TRUE)))
    ELSE Replay(sol, i + 1, Push(b, sol[i]), Append(valid, i), logs)

\* _build_puzzle_entry, lines 441-490: no token was applied.
FallbackEntry(board, sol, mate_moves, fix) ==
    LET winning_color ==
            IF mate_moves # 0
            THEN IF mate_moves % 2 = 1 THEN board.turn ELSE Other(board.turn)
            ELSE board.turn
        bakes == /\ fix
                 /\ SanitizeUci(sol[1]) \notin {"", "junk"}
                 /\ LegalIn(board, sol, 1)
        pushed == IF bakes THEN Push(board, sol[1]) ELSE board
        board_for_json ==
            IF fix THEN [pushed EXCEPT !.turn = winning_color] ELSE pushed
        moves_for_json == IF bakes THEN Tail(sol) ELSE sol
    IN  Attempt(Some(PuzzleEntry(Fen(board_for_json), moves_for_json, mate_moves)),
                IF bakes THEN <<BuilderLog("fallback baked first move", TRUE)>>
                ELSE <<>>)

ValidatedEntryBakesForWinner(board, sol, replayed, mate_moves, fix) ==
    LET valid_tokens == [k \in 1..Len(replayed.valid) |-> sol[replayed.valid[k]]]
        winning_color ==
            IF replayed.board.mate THEN Other(replayed.board.turn) ELSE board.turn
        bakes == /\ fix
                 /\ board.turn = winning_color
                 /\ LegalIn(board, sol, replayed.valid[1])
        pushed == IF bakes THEN Push(board, valid_tokens[1]) ELSE board
        board_for_json ==
            IF fix THEN [pushed EXCEPT !.turn = winning_color] ELSE pushed
        moves_for_json == IF bakes THEN Tail(valid_tokens) ELSE valid_tokens
    IN  Attempt(Some(PuzzleEntry(Fen(board_for_json), moves_for_json, mate_moves)),
                IF bakes THEN <<BuilderLog("baked first move", TRUE)>> ELSE <<>>)

ValidatedEntryAlwaysBakes(board, sol, replayed, mate_moves, fix) ==
    LET valid_tokens == [k \in 1..Len(replayed.valid) |-> sol[replayed.valid[k]]]
        winning_color ==
            IF replayed.board.mate THEN Other(replayed.board.turn) ELSE board.turn
        bakes == fix /\ LegalIn(board, sol, replayed.valid[1])
        pushed == IF bakes THEN Push(board, valid_tokens[1]) ELSE board
        board_for_json ==
            IF fix THEN [pushed EXCEPT !.turn = winning_color] ELSE pushed
        moves_for_json == IF bakes THEN Tail(valid_tokens) ELSE valid_tokens
    IN  Attempt(Some(PuzzleEntry(Fen(board_for_json), moves_for_json, mate_moves)),
                IF bakes THEN <<BuilderLog("baked first move", TRUE)>> ELSE <<>>)

\* _build_puzzle_entry, lines 492-530: at least one token was applied.
ValidatedEntry(board, sol, replayed, mate_moves, fix) ==
    LET valid_tokens == [k \in 1..Len(replayed.valid) |-> sol[replayed.valid[k]]]
        winning_color ==
            IF replayed.board.mate THEN Other(replayed.board.turn) ELSE board.turn
        bakes == /\ fix
                 /\ board.turn # winning_color
                 /\ LegalIn(board, sol, replayed.valid[1])
        pushed == IF bakes THEN Push(board, valid_tokens[1]) ELSE board
        board_for_json ==
            IF fix THEN [pushed EXCEPT !.turn = winning_color] ELSE pushed
        moves_for_json == IF bakes THEN Tail(valid_tokens) ELSE valid_tokens
    IN  Attempt(Some(PuzzleEntry(Fen(board_for_json), moves_for_json, mate_moves)),
                IF bakes THEN <<BuilderLog("baked first move", TRUE)>> ELSE <<>>)

\* _build_puzzle_entry when no log call raises.
BuildPuzzleEntry(board, sol, mate_moves, fix) ==
    LET replayed == Replay(sol, 1, board, <<>>, <<>>)
    IN  IF replayed.valid = <<>>
        THEN LET noted == Append(replayed.logs, BuilderLog("no valid moves", TRUE))
             IN  IF sol = <<>> THEN Attempt(None, noted)
                 ELSE LET fb == FallbackEntry(board, sol, mate_moves, fix)
                      IN  Attempt(fb.entry, noted \o fb.logs)
        ELSE LET ve == ValidatedEntry(board, sol, replayed, mate_moves, fix)
             IN  Attempt(ve.entry, replayed.logs \o ve.logs)

\* The first lines of a file have their silent skips logged (line_number <= 3).
QuietAfter == 3

\* _parse_puzzle_from_line when no log call raises.
ParsePuzzleFromLine(line, number, fix) ==
    IF line.sol = None
    THEN Attempt(None, IF number <= QuietAfter
                       THEN <<BuilderLog("no sol operand", FALSE)>> ELSE <<>>)
    ELSE LET solution_moves == CHOOSE ts \in line.sol : TRUE
         IN  IF solution_moves = <<>>
             THEN Attempt(None, <<BuilderLog("sol operand is empty", FALSE)>>)
             ELSE IF ~line.enough
             THEN Attempt(None, <<BuilderLog("not enough FEN fields", FALSE)>>)
             ELSE IF ~line.fen_ok
             THEN Attempt(None, <<BuilderLog("invalid FEN", FALSE)>>)
             ELSE LET themed == ExtractMateMoves(line.theme)
                      mate_moves == IF themed = None THEN Len(solution_moves)
                                    ELSE CHOOSE m \in themed : TRUE
                      entry == BuildPuzzleEntry(ParsedBoard(line.turn),
                                                solution_moves, mate_moves,
                                                fix)
                  IN  IF entry.entry = None /\ number <= QuietAfter
                      THEN Attempt(None, Append(entry.logs,
                               BuilderLog("build returned None", FALSE)))
                      ELSE entry


\* The log calls of an attempt, each marked with whether it returned.
Returned(logs, ok) == [k \in 1..Len(logs) |-> [kind |-> logs[k].kind, ok |-> ok]]

\* _parse_puzzle_from_line with a log_callback that may raise.  A raise
\* inside the try of _build_puzzle_entry is caught at line 532, whose handler
\* logs "build failed" and returns None; a raise of that call, or of a log
\* call of _parse_puzzle_from_line itself, leaves the builder.
ParseWithFaults(line, n, fix, faults) ==
    LET attempt == ParsePuzzleFromLine(line, n, fix)
    IN  IF faults = "none" \/ attempt.logs = <<>>
        THEN Outcome(IF attempt.entry = None THEN "none" ELSE "entry",
                     attempt.entry, Returned(attempt.logs, TRUE))
        ELSE LET hit == <<[kind |-> attempt.logs[1].kind, ok |-> FALSE]>>
             IN  IF ~attempt.logs[1].guarded
                 THEN Outcome("raised", None, hit)
                 ELSE IF faults = "all"
                 THEN Outcome("raised", None,
                              Append(hit, [kind |-> "build failed", ok |-> FALSE]))
                 ELSE Outcome("none", None,
                              Append(hit, [kind |-> "build failed", ok |-> TRUE])
                              \o (IF n <= QuietAfter
                                  THEN <<[kind |-> "build returned None", ok |-> TRUE]>>
                                  ELSE <<>>))

BuilderInit ==
    /\ RunIdle
    /\ ExtractIdle
    /\ AnnotateIdle
    /\ ExportIdle
    /\ SignIdle
    /\ BarIdle
    /\ TripIdle
    /\ raw_line \in {Some(l) : l \in AnnotatedLines}
    /\ line_number \in {QuietAfter, QuietAfter + 1}
    /\ fix_move_order \in BOOLEAN
    /\ log_faults \in {"none", "first", "all"}
    /\ built = Outcome("", None, <<>>)
    /\ bpc = "line"

\* One call of _parse_puzzle_from_line.
BuildOne ==
    /\ bpc = "line"
    /\ built' = ParseWithFaults(CHOOSE l \in raw_line : TRUE, line_number,
                                fix_move_order, log_faults)
    /\ bpc' = "built"
    /\ UNCHANGED <<raw_line, line_number, fix_move_order, log_faults,
                   runVars, extractVars, annotateVars, exportVars, signVars, barVars, tripVars>>

BuilderNext == BuildOne

BuilderSpec == BuilderInit /\ [][BuilderNext]_vars


\* ------------------------------------------- properties of the builder
\* Helpers of the properties below.
HasEntry == bpc = "built" /\ built.status = "entry"
TheEntry == CHOOSE e \in built.entry : TRUE
TheLine == CHOOSE l \in raw_line : TRUE
TheSol == CHOOSE ts \in TheLine.sol : TRUE
Accepted == {i \in 1..Len(TheSol) : TheSol[i].uci \in Playable}
Baked == TheEntry.fen.pushed # {}

\* C12: every entry the builder returns has a non-empty solution, with
\* fix_move_order on or off; a bake leaves at least one token.
C12_SolutionNeverEmpty ==
    HasEntry => Len(TheEntry.solution) >= 1

C12_Witness ==
    /\ HasEntry
    /\ fix_move_order
    /\ Baked
    /\ Len(TheEntry.solution) = 1


\* The solution holds tokens of the sol operand with their original text
\* (marker included), in their original order.
OriginalTokensInOrder ==
    /\ \A k \in 1..Len(TheEntry.solution) :
           /\ TheEntry.solution[k].at \in 1..Len(TheSol)
           /\ TheEntry.solution[k] = TheSol[TheEntry.solution[k].at]
    /\ \A k \in 1..Len(TheEntry.solution) : \A m \in 1..(k - 1) :
           TheEntry.solution[m].at < TheEntry.solution[k].at

\* C13 (as claimed): in every entry each token of solution is a token of the
\* sol operand that parsed and was legal where the replay met it, with its
\* original text and in the original order; a token that failed to parse
\* or was illegal there never appears in solution.
C13_OnlyAcceptedTokens ==
    HasEntry =>
        /\ OriginalTokensInOrder
        /\ \A k \in 1..Len(TheEntry.solution) : TheEntry.solution[k].at \in Accepted

\* C13 (amended): as claimed for a line of which the replay accepted at
\* least one token, the solution then being the accepted tokens less a baked
\* first one; when the replay accepted no token the solution is the whole
\* sol operand, unvalidated.
C13_AcceptedTokensOrWholeOperand ==
    HasEntry =>
        /\ OriginalTokensInOrder
        /\ Accepted # {} =>
               {TheEntry.solution[k].at : k \in 1..Len(TheEntry.solution)}
                   = Accepted \ TheEntry.fen.pushed
        /\ Accepted = {} => TheEntry.solution = TheSol

C13_Witness ==
    /\ HasEntry
    /\ Len(TheSol) = 2
    /\ TheSol[1].uci = "illegal"
    /\ TheSol[2].uci = "mating"
    /\ TheSol[2].suffix = "#"
    /\ TheEntry.solution = <<TheSol[2]>>


\* chess.Board(fen) for an entry's fen: the position, the side to move the
\* fen names, checkmate when the position is the one a mating token gave.
BoardOfFen(f) ==
    [turn |-> f.side, first |-> f.first, pushed |-> f.pushed,
     mate |-> \E j \in f.pushed : TheSol[j].uci = "mating"]

\* Replaying a solution, markers stripped, from a board: whether every move
\* parsed and was legal where it was played, and the board reached.
RECURSIVE EntryReplay(_, _, _)
EntryReplay(moves, k, b) ==
    IF k > Len(moves) THEN [legal |-> TRUE, board |-> b]
    ELSE IF /\ SanitizeUci(moves[k]) \notin {"", "junk"}
            /\ LegalIn(b, TheSol, moves[k].at)
         THEN EntryReplay(moves, k + 1, Push(b, moves[k]))
         ELSE [legal |-> FALSE, board |-> b]

FullyValidated == Accepted = 1..Len(TheSol)

\* C14: for an entry built from a line whose every sol token was accepted and
\* applied, replaying the entry's solution from the entry's fen is legal at
\* every step and ends in checkmate.
C14_ReplayReachesCheckmate ==
    (HasEntry /\ FullyValidated) =>
        LET r == EntryReplay(TheEntry.solution, 1, BoardOfFen(TheEntry.fen))
        IN  r.legal /\ r.board.mate


\* C15: every entry has moves_to_mate >= 1, also for a theme operand that
\* spells mate 0 or a negative mate value.
C15_MovesToMatePositive ==
    HasEntry => TheEntry.moves_to_mate >= 1

\* The theme operand spells a mate distance.
ThemeSpellsMate ==
    TheLine.theme # None /\ \A t \in TheLine.theme : t.word \in {"mate", "Mate"}

\* C16: moves_to_mate of an entry is fixed by the line's operands alone (the
\* magnitude the theme operand spells, else the number of sol tokens), so
\* two runs on the same line give the same value whatever the line number
\* or the log callback; and solution is never longer than the sol operand.
C16_SameMateNeverLonger ==
    HasEntry =>
        /\ ThemeSpellsMate =>
               \A t \in TheLine.theme : TheEntry.moves_to_mate = t.digits
        /\ ~ThemeSpellsMate => TheEntry.moves_to_mate = Len(TheSol)
        /\ Len(TheEntry.solution) <= Len(TheSol)

C16_Witness ==
    /\ HasEntry
    /\ ThemeSpellsMate
    /\ \A t \in TheLine.theme : t.sign = "-" /\ t.digits = 1
    /\ TheEntry.moves_to_mate = 1
    /\ Len(TheSol) = 2
    /\ Len(TheEntry.solution) = 1

\* C17: for an entry built with fix_move_order off, the number of solution
\* moves has the parity of moves_to_mate: replaying solution from fen ends
\* with the other side to move iff moves_to_mate is odd.
C17_ParityRoundTrip ==
    (HasEntry /\ ~fix_move_order) =>
        LET r == EntryReplay(TheEntry.solution, 1, BoardOfFen(TheEntry.fen))
        IN  /\ Len(TheEntry.solution) % 2 = TheEntry.moves_to_mate % 2
            /\ r.legal =>
                   (r.board.turn # TheEntry.fen.side
                        <=> TheEntry.moves_to_mate % 2 = 1)


\* ================================================== generate_json_from_epd
\* The non-blank lines a source file is made of here: a line without sol
\* operand, a mate in one as the Filter Pipeline writes it, a line whose
\* first token is illegal and whose second mates, a line whose only token
\* does not parse, and a line whose position chess.Board rejects.
SampleLines ==
    {AnnotatedLine(None, TRUE, TRUE, "w", None),
     AnnotatedLine(Some(Numbered(<<[uci |-> "mating", suffix |-> "#"]>>)),
                   TRUE, TRUE, "w",
                   Some([word |-> "mate", sign |-> "", digits |-> 1])),
     AnnotatedLine(Some(Numbered(<<[uci |-> "illegal", suffix |-> ""],
                                   [uci |-> "mating", suffix |-> "#"]>>)),
                   TRUE, TRUE, "b", None),
     AnnotatedLine(Some(Numbered(<<[uci |-> "junk", suffix |-> ""]>>)),
                   TRUE, TRUE, "w", None),
     AnnotatedLine(Some(Numbered(<<[uci |-> "mating", suffix |-> "#"]>>)),
                   TRUE, FALSE, "w", None)}

\* A source file: each line is blank after strip() (None) or Some(line).
SourceFiles ==
    UNION {[1..n -> {None} \cup {Some(l) : l \in SampleLines}] : n \in 0..MaxLines}

AppendPuzzleOnce(ps, e) ==
    IF \E k \in 1..Len(ps) : ps[k] = e THEN ps ELSE Append(ps, e)

\* puzzles.append(entry)
AppendPuzzle(ps, e) == Append(ps, e)

Payload(ps) == [theme |-> "Mates", pattern |-> "Mates", puzzles |-> ps]

ExportInit ==
    /\ RunIdle
    /\ ExtractIdle
    /\ AnnotateIdle
    /\ BuilderIdle
    /\ SignIdle
    /\ BarIdle
    /\ TripIdle
    /\ source \in SourceFiles
    /\ json_fix \in BOOLEAN
    /\ stop_event = FALSE
    /\ total_lines = 0
    /\ json_processed = 0
    /\ json_kept = 0
    /\ puzzles = <<>>
    /\ cancelled = FALSE
    /\ handled = <<>>
    /\ json_progress = <<>>
    /\ returned = None
    /\ dest = "untouched"
    /\ finished = <<>>
    /\ cb_raised = FALSE
    /\ jpc = "count"

\* Lines 581-599: the counting pass (FileNotFoundError when the file is
\* missing, ValueError when it has no line), the initialisation, and the
\* second open(), whose raise passes through the finally clause.
ExportCount ==
    /\ jpc = "count"
    /\ \E found \in BOOLEAN, reopened \in BOOLEAN :
         IF ~found \/ Len(source) = 0
         THEN /\ jpc' = "raised"
              /\ UNCHANGED total_lines
         ELSE /\ total_lines' = Len(source)
              /\ jpc' = IF reopened THEN "loop" ELSE "unwind"
    /\ UNCHANGED <<source, json_fix, stop_event, json_processed, json_kept,
                   puzzles, cancelled, handled, json_progress, returned>>
    /\ UNCHANGED <<dest, finished, cb_raised>>
    /\ UNCHANGED <<runVars, extractVars, annotateVars, builderVars, signVars, barVars, tripVars>>

\* Line 600: the file has no further line.
ExportLoopEnd ==
    /\ jpc = "loop"
    /\ json_processed = total_lines
    /\ jpc' = "finally"
    /\ UNCHANGED <<source, json_fix, stop_event, total_lines, json_processed,
                   json_kept, puzzles, cancelled, handled, json_progress,
                   returned>>
    /\ UNCHANGED <<dest, finished, cb_raised>>
    /\ UNCHANGED <<runVars, extractVars, annotateVars, builderVars, signVars, barVars, tripVars>>

\* Lines 601-605: the poll at the top of an iteration sees the stop event.
ExportCancelled ==
    /\ jpc = "loop"
    /\ json_processed < total_lines
    /\ stop_event
    /\ cancelled' = TRUE
    /\ \E okLog \in BOOLEAN :
         /\ jpc' = IF okLog THEN "finally" ELSE "unwind"
         /\ cb_raised' = (cb_raised \/ ~okLog)
    /\ UNCHANGED <<source, json_fix, stop_event, total_lines, json_processed,
                   json_kept, puzzles, handled, json_progress, returned>>
    /\ UNCHANGED <<dest, finished>>
    /\ UNCHANGED <<runVars, extractVars, annotateVars, builderVars, signVars, barVars, tripVars>>

\* Lines 607-619: one iteration for line number line_number.  The progress
\* callback is called after the line unless an exception left the iteration.
ExportLine ==
    /\ jpc = "loop"
    /\ json_processed < total_lines
    /\ ~stop_event
    /\ LET number == json_processed + 1
           event  == ProgressEvent(Percent(number, total_lines), number,
                                   total_lines, json_kept')
       IN  /\ json_processed' = number
           /\ \E faults \in {"none", "first", "all"}, okAdded \in BOOLEAN,
                 okProgress \in BOOLEAN :
                LET out == IF source[number] = None
                           THEN Outcome("blank", None, <<>>)
                           ELSE ParseWithFaults(CHOOSE l \in source[number] : TRUE,
                                                number, json_fix, faults)
                    thrown == \/ out.status = "raised"
                              \/ out.status = "entry" /\ ~okAdded
                IN  /\ handled' = Append(handled, out.status)
                    /\ IF out.status = "entry"
                       THEN /\ puzzles' = AppendPuzzle(puzzles,
                                              CHOOSE e \in out.entry : TRUE)
                            /\ json_kept' = json_kept + 1
                       ELSE UNCHANGED <<puzzles, json_kept>>
                    /\ IF thrown
                       THEN /\ jpc' = "unwind"
                            /\ UNCHANGED json_progress
                       ELSE /\ json_progress' = Append(json_progress, event)
                            /\ jpc' = IF okProgress THEN "loop" ELSE "unwind"
                    /\ cb_raised' = \/ cb_raised
                                    \/ \E k \in 1..Len(out.logged) : ~out.logged[k].ok
                                    \/ out.status = "entry" /\ ~okAdded
                                    \/ ~thrown /\ ~okProgress
    /\ UNCHANGED <<source, json_fix, stop_event, total_lines, cancelled, returned>>
    /\ UNCHANGED <<dest, finished>>
    /\ UNCHANGED <<runVars, extractVars, annotateVars, builderVars, signVars, barVars, tripVars>>

\* Lines 620-630: the finally clause reports 100 percent; the tuple is
\* returned unless an exception is on its way or this call raises.
ExportFinally ==
    /\ jpc \in {"finally", "unwind"}
    /\ json_progress' = Append(json_progress,
           ProgressEvent(100, json_processed, total_lines, json_kept))
    /\ \E okProgress \in BOOLEAN :
         /\ cb_raised' = (cb_raised \/ ~okProgress)
         /\ IF jpc = "finally" /\ okProgress
            THEN /\ returned' = Some([payload   |-> Payload(puzzles),
                                      processed |-> json_processed,
                                      kept      |-> json_kept,
                                      cancelled |-> cancelled])
                 /\ jpc' = "returned"
            ELSE /\ jpc' = "raised"
                 /\ UNCHANGED returned
    /\ UNCHANGED <<source, json_fix, stop_event, total_lines, json_processed,
                   json_kept, puzzles, cancelled, handled>>
    /\ UNCHANGED <<dest, finished>>
    /\ UNCHANGED <<runVars, extractVars, annotateVars, builderVars, signVars, barVars, tripVars>>

\* The export dialog's cancel: stop_event.set() while the call runs.
ExportCancel ==
    /\ jpc \in {"count", "loop"}
    /\ ~stop_event
    /\ stop_event' = TRUE
    /\ UNCHANGED <<source, json_fix, total_lines, json_processed, json_kept,
                   puzzles, cancelled, handled, json_progress, returned, jpc>>
    /\ UNCHANGED <<dest, finished, cb_raised>>
    /\ UNCHANGED <<runVars, extractVars, annotateVars, builderVars, signVars, barVars, tripVars>>

\* One invocation of finished_callback: its first argument and its count.
Finished(ok, n) == [ok |-> ok, kept |-> n]

\* JsonExportWorker.run, lines 653-656: a cancelled call is reported and the
\* destination is left alone.
WritesDestAlways(wasCancelled) == TRUE

WritesDest(wasCancelled) == ~wasCancelled

\* JsonExportWorker.run, lines 671-675: the handler logs the failure and
\* reports it; a raise of its log call leaves the thread.
Handler(fin, okFailLog) == IF okFailLog THEN Append(fin, Finished(FALSE, 0)) ELSE fin

\* JsonExportWorker.run, lines 644-675, after generate_json_from_epd has
\* returned or raised.  how names the first step of the writing that fails;
\* open(dest_path, 'w') leaves an empty or partial file when json.dump fails.
WorkerFinish ==
    /\ jpc \in {"returned", "raised"}
    /\ jpc' = "done"
    /\ \E how \in {"ok", "makedirs", "open", "dump"},
          okSaved \in BOOLEAN, okFin \in BOOLEAN,
          okFailLog \in BOOLEAN, okFailFin \in BOOLEAN :
         IF jpc = "raised"
         THEN /\ finished' = Handler(finished, okFailLog)
              /\ cb_raised' = (cb_raised \/ ~okFailLog \/ ~okFailFin)
              /\ UNCHANGED dest
         ELSE IF ~WritesDest(cancelled)
         THEN /\ finished' = IF okFin
                             THEN Append(finished, Finished(FALSE, json_kept))
                             ELSE Handler(Append(finished, Finished(FALSE, json_kept)),
                                          okFailLog)
              /\ cb_raised' = (cb_raised \/ ~okFin)
              /\ UNCHANGED dest
         ELSE IF how # "ok"
         THEN /\ dest' = how \o " failed"
              /\ finished' = Handler(finished, okFailLog)
              /\ cb_raised' = (cb_raised \/ ~okFailLog \/ ~okFailFin)
         ELSE /\ dest' = "written"
              /\ finished' =
                   IF ~okSaved THEN Handler(finished, okFailLog)
                   ELSE IF okFin THEN Append(finished, Finished(TRUE, json_kept))
                   ELSE Handler(Append(finished, Finished(TRUE, json_kept)), okFailLog)
              /\ cb_raised' = (cb_raised \/ ~okSaved \/ ~okFin)
    /\ UNCHANGED <<source, json_fix, stop_event, total_lines, json_processed,
                   json_kept, puzzles, cancelled, handled, json_progress, returned>>
    /\ UNCHANGED <<runVars, extractVars, annotateVars, builderVars, signVars, barVars, tripVars>>

ExportNext ==
    \/ ExportCount
    \/ ExportLoopEnd
    \/ ExportCancelled
    \/ ExportLine
    \/ ExportFinally
    \/ ExportCancel
    \/ WorkerFinish

ExportSpec == ExportInit /\ [][ExportNext]_vars


\* ------------------------------------------- properties of the export
\* Helpers of the properties below.
TheReturn == CHOOSE r \in returned : TRUE
\* The numbers of the lines read whose call of the builder returned an entry.
EntryLines == {i \in 1..Len(handled) : handled[i] = "entry"}
\* The entry the builder returns for line i when none of its log calls raises.
EntryOf(i) ==
    ParsePuzzleFromLine(CHOOSE l \in source[i] : TRUE, i, json_fix).entry
\* The number of entry lines up to line i.
Rank(i) == Cardinality({j \in EntryLines : j <= i})

\* C18: the returned payload has theme = pattern = "Mates"; puzzles holds
\* one entry for every non-blank line read that yielded an entry, in line
\* order, duplicates included; kept equals the length of puzzles and
\* kept <= processed <= total lines; every entry has elo 1200, solved 0,
\* failed 0.
C18_PayloadShape ==
    (jpc = "returned") =>
        /\ returned # None
        /\ TheReturn.payload.theme = "Mates"
        /\ TheReturn.payload.pattern = "Mates"
        /\ DOMAIN TheReturn.payload = {"theme", "pattern", "puzzles"}
        /\ LET ps == TheReturn.payload.puzzles
           IN  /\ Len(handled) = TheReturn.processed
               /\ Len(ps) = Cardinality(EntryLines)
               /\ \A i \in EntryLines :
                      /\ source[i] # None
                      /\ ps[Rank(i)] = CHOOSE e \in EntryOf(i) : TRUE
               /\ \A i \in 1..Len(handled) :
                      (source[i] # None /\ (\E e \in EntryOf(i) : TRUE)
                          /\ ParsePuzzleFromLine(CHOOSE l \in source[i] : TRUE,
                                                 i, json_fix).logs = <<>>)
                      => i \in EntryLines
               /\ \A i \in 1..Len(handled) : source[i] = None => i \notin EntryLines
               /\ TheReturn.kept = Len(ps)
               /\ TheReturn.kept <= TheReturn.processed
               /\ TheReturn.processed <= Len(source)
               /\ ~TheReturn.cancelled => TheReturn.processed = Len(source)
               /\ \A k \in 1..Len(ps) :
                      ps[k].elo = 1200 /\ ps[k].solved = 0 /\ ps[k].failed = 0

C18_Witness ==
    /\ jpc = "returned"
    /\ Len(source) = 2
    /\ source[1] # None
    /\ source[1] = source[2]
    /\ Len(TheReturn.payload.puzzles) = 2
    /\ TheReturn.payload.puzzles[1] = TheReturn.payload.puzzles[2]
    /\ TheReturn.kept = 2
    /\ TheReturn.processed = 2


\* The first move of pv_raw whose push raises or gives checkmate, if any.
FirstStop ==
    {i \in 1..Len(pv_raw) :
        /\ pv_raw[i] \in {"bad", "mate"}
        /\ \A j \in 1..(i - 1) : pv_raw[j] = "quiet"}

\* C21: the recorded moves are the prefix of the principal variation up to
\* and including the first move that gives checkmate or whose push raises
\* (the whole variation when there is none); nothing is recorded after the
\* checkmating move, so the marked token is the last one; a push that raises
\* leaves the walk by `break`, not by an exception, and the walk pushes on
\* the copy only, never on the board of the line.
C21_RecordedPrefixEndsAtStop ==
    (apc = "annotated") =>
        /\ \A i \in FirstStop : Len(annotated_move_ucis) = i
        /\ FirstStop = {} => Len(annotated_move_ucis) = Len(pv_raw)
        /\ \A i \in 1..Len(annotated_move_ucis) : annotated_move_ucis[i].mv = i
        /\ \A i \in 1..Len(pv_raw) :
               (pv_raw[i] = "mate" /\ i \in FirstStop) =>
                   (mate_index = Some(i) /\ Len(annotated_move_ucis) = i)
        /\ Len(pv_raw) > 0 => Marked = {Len(annotated_move_ucis)}
        /\ ~walk_raised
        /\ board_moves = {}
        /\ board_cp_moves =
               {i \in 1..Len(annotated_move_ucis) : pv_raw[i] # "bad"}

C21_Witness ==
    /\ apc = "annotated"
    /\ Len(pv_raw) = 4
    /\ pv_raw[1] = "quiet"
    /\ pv_raw[2] = "bad"
    /\ pv_raw[4] = "mate"
    /\ Len(annotated_move_ucis) = 2
    /\ Marked = {2}
    /\ board_cp_moves = {1}
    /\ mate_index = None


RECURSIVE InOrder(_)
InOrder(S) ==
    IF S = {} THEN <<>>
    ELSE LET i == CHOOSE x \in S : \A y \in S : x <= y
         IN  <<TheSol[i]>> \o InOrder(S \ {i})
AcceptedTokens == InOrder(Accepted)

\* The replay of the line ended in checkmate: its last accepted token mates.
ReplayMates == \E i \in Accepted : TheSol[i].uci = "mating"

\* The winner as the claim words it, from the line and the mate distance.
ClaimedWinner ==
    IF Accepted # {} /\ ReplayMates
    THEN IF Cardinality(Accepted) % 2 = 1 THEN TheLine.turn ELSE Other(TheLine.turn)
    ELSE IF Accepted = {}
    THEN IF TheEntry.moves_to_mate % 2 = 1 THEN TheLine.turn ELSE Other(TheLine.turn)
    ELSE TheLine.turn

\* C23: the winner is the side not to move after the replay when the replay
\* ended in checkmate; the original side to move for an odd mate distance
\* and the other side for an even one when no token validated; the original
\* side to move when tokens validated without checkmate.  With
\* fix_move_order on the winner is the side to move of the entry's fen.
C23_WinnerRule ==
    (HasEntry /\ fix_move_order) => TheEntry.fen.side = ClaimedWinner


\* The solution moves before any bake: the accepted tokens, or the whole
\* operand when none was accepted.
FullSolution == IF Accepted = {} THEN TheSol ELSE AcceptedTokens

\* C24: with fix_move_order on the side to move of the entry's fen is the
\* winner, and whenever it differs from the original side to move the fen
\* is the position after the first solution move, which is removed from
\* solution - with validated tokens as well as in the fallback.
C24_FirstMoveBaked ==
    (HasEntry /\ fix_move_order /\ TheEntry.fen.side # TheLine.turn) =>
        /\ TheEntry.fen.pushed = {FullSolution[1].at}
        /\ TheEntry.solution = Tail(FullSolution)


\* No move is baked in: the fen is the parsed position with its own side to
\* move.
FenUnchanged == TheEntry.fen = Fen(ParsedBoard(TheLine.turn))

\* C25 (as claimed): with fix_move_order off, or on with the original side
\* to move equal to the winner, the fen is the parsed position unchanged and
\* solution is the full list of accepted tokens.
C25_NoBakeKeepsAccepted ==
    (HasEntry /\ (~fix_move_order \/ TheEntry.fen.side = TheLine.turn)) =>
        /\ FenUnchanged
        /\ TheEntry.solution = AcceptedTokens

\* C25 (amended): as claimed, the solution being the whole sol operand when
\* the replay accepted no token.
C25_NoBakeKeepsFullSolution ==
    (HasEntry /\ (~fix_move_order \/ TheEntry.fen.side = TheLine.turn)) =>
        /\ FenUnchanged
        /\ Accepted # {} => TheEntry.solution = AcceptedTokens
        /\ Accepted = {} => TheEntry.solution = TheSol

C25_Witness ==
    /\ HasEntry
    /\ fix_move_order
    /\ TheLine.turn = "w"
    /\ Len(TheSol) = 1
    /\ TheSol[1].uci = "mating"
    /\ TheSol[1].suffix = "#"
    /\ TheEntry.fen = Fen(ParsedBoard("w"))
    /\ TheEntry.solution = TheSol
    /\ TheEntry.moves_to_mate = 1


\* The magnitude the theme operand spells, None when it spells none.
ThemeMagnitude ==
    IF ThemeSpellsMate THEN {t.digits : t \in TheLine.theme} ELSE None

\* C26: moves_to_mate is the magnitude of the mate distance in the theme
\* operand when it has one, else the number of tokens of the sol operand
\* before validation; dropped tokens and a baked first move do not change it.
C26_MovesToMateFromOperands ==
    HasEntry =>
        LET expected == IF ThemeMagnitude # None
                        THEN CHOOSE d \in ThemeMagnitude : TRUE
                        ELSE Len(TheSol)
            dropped  == Len(TheSol) - Cardinality(Accepted)
        IN  /\ TheEntry.moves_to_mate = expected
            /\ (ThemeMagnitude = None /\ Accepted # {}) =>
                   TheEntry.moves_to_mate =
                       Len(TheEntry.solution) + dropped + (IF Baked THEN 1 ELSE 0)

C26_Witness ==
    /\ HasEntry
    /\ Baked
    /\ ThemeMagnitude = None
    /\ Len(TheSol) = 2
    /\ Len(TheEntry.solution) = 1
    /\ TheEntry.moves_to_mate = 2


\* ================================== the keep decision and the sign of mate
\* run(), lines 282-333, for line n with mate distance `mate`: what is
\* written for it, None when the keep test fails.
KeptLine(n, mate, limit, pv, addSol) ==
    IF KeepTest(mate, limit) THEN Some(OutputLine(n, mate, pv, addSol)) ELSE None

SignInit ==
    /\ RunIdle
    /\ ExtractIdle
    /\ AnnotateIdle
    /\ BuilderIdle
    /\ ExportIdle
    /\ BarIdle
    /\ TripIdle
    /\ sign_mate \in Mates
    /\ sign_limit \in 0..MaxLimit
    /\ sign_pv \in Pvs
    /\ sign_add \in BOOLEAN
    /\ out_first = None
    /\ out_second = None
    /\ spc = "analysed"

\* The same line in both runs: the first run extracted sign_mate, the second
\* its negative, everything else being equal.
DecideBoth ==
    /\ spc = "analysed"
    /\ out_first' = KeptLine(1, Some(sign_mate), sign_limit, sign_pv, sign_add)
    /\ out_second' = KeptLine(1, Some(0 - sign_mate), sign_limit, sign_pv, sign_add)
    /\ spc' = "decided"
    /\ UNCHANGED <<sign_mate, sign_limit, sign_pv, sign_add>>
    /\ UNCHANGED <<runVars, extractVars, annotateVars, builderVars, exportVars,
                   barVars, tripVars>>

SignNext == DecideBoth

SignSpec == SignInit /\ [][SignNext]_vars

\* C27: two runs that differ only in the sign of the mate distance reported
\* for a line write the same for that line: the keep decision and the theme
\* value depend on the magnitude alone, so a line whose side to move is
\* being mated is kept like one whose side to move mates.
C27_SignDoesNotMatter ==
    (spc = "decided") =>
        /\ out_first = out_second
        /\ (sign_mate # 0 /\ Abs(sign_mate) <= sign_limit) => out_first # None
        /\ \A o \in out_second :
               o.theme # None => o.theme = Some(Abs(sign_mate))

C27_Witness ==
    /\ spc = "decided"
    /\ sign_mate = 1
    /\ sign_add
    /\ Len(sign_pv) = 1
    /\ out_second # None
    /\ \A o \in out_second : o.theme = Some(1)
    /\ out_first = out_second


\* ===================================== progress of one streaming iteration
\* Any point the loop of lines 200-346 can be at when it reads a line: total
\* lines counted, fewer than that read, no more kept than read.
BarInit ==
    /\ RunIdle
    /\ ExtractIdle
    /\ AnnotateIdle
    /\ BuilderIdle
    /\ ExportIdle
    /\ SignIdle
    /\ TripIdle
    /\ bar_total \in 1..MaxTotal
    /\ bar_processed \in 0..(bar_total - 1)
    /\ bar_kept \in {0, bar_processed}
    /\ bar_event = None
    /\ gpc = "head"

\* run(), lines 205-217: the line is counted and the progress callback is
\* invoked with the new count.
ReadLine ==
    /\ gpc = "head"
    /\ bar_processed' = bar_processed + 1
    /\ bar_event' = Some(ProgressEvent(Percent(bar_processed + 1, bar_total),
                                       bar_processed + 1, bar_total, bar_kept))
    /\ gpc' = "reported"
    /\ UNCHANGED <<bar_total, bar_kept>>
    /\ UNCHANGED <<runVars, extractVars, annotateVars, builderVars, exportVars,
                   signVars, tripVars>>

BarNext == ReadLine

BarSpec == BarInit /\ [][BarNext]_vars

\* The quotient of the integers.
PercentExact(p, t) == (p * 100) \div t

\* C28: total is fixed by the counting pass, processed grows by one for each
\* line read and a progress event is emitted for it, the counters of the
\* events are in order (0 <= kept <= processed <= total), and the percent of
\* every event before the final one is floor(100 * processed / total).
C28_ProgressEventOfEveryLine ==
    (gpc = "reported") =>
        \A e \in bar_event :
            /\ e.total = bar_total
            /\ e.processed = bar_processed
            /\ 0 <= e.kept /\ e.kept <= e.processed /\ e.processed <= e.total
            /\ e.pct = PercentExact(e.processed, e.total)

\* The parts of C28 that are about the sequence of events of a whole run:
\* the total never changes, one event per line read and one more per line
\* kept, counters and percent never decrease before the final event.
C28_EventsInOrder ==
    /\ \A i \in 1..Len(progress) :
           /\ progress[i].total = total_positions
           /\ 0 <= progress[i].kept
           /\ progress[i].kept <= progress[i].processed
           /\ progress[i].processed <= progress[i].total
    /\ \A i \in 1..(Len(progress) - 1) :
           /\ progress[i].processed <= progress[i + 1].processed
           /\ progress[i].kept <= progress[i + 1].kept
           /\ progress[i].pct <= progress[i + 1].pct
    /\ \A n \in 1..processed : \E i \in 1..Len(progress) : progress[i].processed = n


\* ============================================ skipped lines and their logs
\* The line given to the builder is one of those the claim lists: no sol
\* operand, an empty one, too few position fields, or a position chess.Board
\* rejects.
SkippedForError ==
    \/ TheLine.sol = None
    \/ TheLine.sol = Some(<<>>)
    \/ ~TheLine.enough
    \/ ~TheLine.fen_ok

\* C29: every line skipped because of an error produces at least one log
\* event carrying its line number, whatever its position in the file; in the
\* Puzzle Builder every log message starts with the line number, so a line
\* skipped for one of the listed causes has a non-empty log.
C29_EverySkipLogged ==
    (bpc = "built" /\ SkippedForError) => Len(built.logged) >= 1

\* The Filter Pipeline's half of C29: a line skipped as invalid, or because a
\* call raised into the handler of line 343, has a log event with its number.
C29_FilterSkipsLogged ==
    \A n \in 1..processed :
        (last.line = n /\ (last.how = "invalid" \/ last.cause # "")) =>
            \E i \in 1..Len(log) :
                /\ log[i].line = n
                /\ log[i].kind \in {"invalid", "engine error"}


\* ============================================ a rejected thread-count option
\* C30: when engine.configure fails the run is not aborted (it goes on to the
\* counting pass with the engine session it opened) and the failure is
\* reported by a log event: when the counting pass starts after a rejected
\* option, the log holds more than the "starting" message.
C30_RejectedOptionLogged ==
    (threads_option = "rejected" /\ pc = "count") =>
        /\ engine = "open"
        /\ opened = 1
        /\ result = ""
        /\ \E i \in 1..Len(log) : log[i].kind # "starting"

\* The half of C30 that is about the run going on: a rejected option never
\* ends the run, and no second engine session is opened.
C30_RunGoesOn ==
    (threads_option = "rejected") =>
        /\ opened = 1
        /\ pc = "count" => (engine = "open" /\ result = "")

\* A run whose option was rejected streams and keeps a line.
C30_KeepsAfterRejection ==
    /\ threads_option = "rejected"
    /\ result = "completed"
    /\ kept >= 1


\* =============================== one line through both pipelines, as text
\* A line is a sequence of whitespace-separated words.  A word is a position
\* field ("fen": a word chess.Board can read in its place), another word
\* without a semicolon ("word"), a semicolon (";"), or a quoted operand with
\* its name ("sol", "theme"), whose text is kept.
Item(kind, text) == [kind |-> kind, text |-> text]

Field == Item("fen", <<>>)
Word == Item("word", <<>>)
Semi == Item(";", <<>>)

\* The pieces of the text of a sol operand: a move token or a space.
Space == [space |-> TRUE, mv |-> 0, hash |-> FALSE]
Piece(tok) == [space |-> FALSE, mv |-> tok.mv, hash |-> tok.hash]

\* ' '.join(annotated_move_ucis), line 323.
Join(tokens) ==
    IF tokens = <<>> THEN <<>>
    ELSE [j \in 1..(2 * Len(tokens) - 1) |->
             IF j % 2 = 1 THEN Piece(tokens[(j + 1) \div 2]) ELSE Space]

IsToken(piece) == ~piece.space

\* _extract_solution_moves: the text split at whitespace, empty tokens dropped.
ExtractSolutionMoves(text) ==
    LET found == SelectSeq(text, IsToken)
    IN  [j \in 1..Len(found) |-> [mv |-> found[j].mv, hash |-> found[j].hash]]

\* f"mate {mate_moves}", line 329: the text of the theme operand.
ThemeText(n) ==
    [word |-> "mate", sign |-> IF n < 0 THEN "-" ELSE "", digits |-> Abs(n)]

\* The input lines: some position fields, then nothing, a further word, an
\* operand other than sol and theme, or a sol operand of the line's own.
OwnSol == <<Semi, Item("sol", Join(<<[mv |-> 0, hash |-> FALSE]>>)), Semi>>

Tails == {<<>>, <<Word>>, <<Semi, Word, Semi>>, OwnSol}

InputLines == {[i \in 1..k |-> Field] \o tail : k \in 1..MaxFields, tail \in Tails}

\* chess.Board(text): the text is read only when every word of it is a
\* position field; `ok` is the library's verdict on such a text.
BoardAccepts(words, ok) ==
    /\ Len(words) >= 1
    /\ Len(words) <= 6
    /\ \A i \in 1..Len(words) : words[i].kind = "fen"
    /\ ok

\* run(), lines 226-230: candidate_fen.
CandidateFen(line) == IF Len(line) >= 6 THEN SubSeq(line, 1, 6) ELSE line

\* run(), lines 286-331: output_line, from what OutputLine says is appended.
WrittenLine(line, out) ==
    line \o (IF out.sol = <<>> THEN <<>>
             ELSE <<Semi, Item("sol", Join(out.sol)), Semi>>)
         \o (IF out.theme = None THEN <<>>
             ELSE <<Semi, Item("theme", ThemeText(CHOOSE m \in out.theme : TRUE)), Semi>>)

\* _SOL_PATTERN.search / _THEME_PATTERN.search: the text of the first operand
\* of that name that follows a semicolon, None when there is none.
FirstOperand(line, name) ==
    LET at == {i \in 1..(Len(line) - 1) : line[i].kind = ";" /\ line[i + 1].kind = name}
    IN  IF at = {} THEN None
        ELSE Some(line[(CHOOSE i \in at : \A j \in at : i <= j) + 1].text)

\* raw_line.split(';', 1)[0].strip().split(), lines 551-552.
BaseFields(line) ==
    LET at == {i \in 1..Len(line) : line[i].kind = ";"}
    IN  IF at = {} THEN line
        ELSE SubSeq(line, 1, (CHOOSE i \in at : \A j \in at : i <= j) - 1)

Parts(cause, tokens, fen, mate_moves) ==
    [cause |-> cause, tokens |-> tokens, fen |-> fen, mate_moves |-> mate_moves]

\* _parse_puzzle_from_line, lines 538-573: the sol tokens, the position text
\* given to chess.Board and the mate distance, or the cause of giving up.
ParsedParts(line, ok) ==
    LET sol_match == FirstOperand(line, "sol")
    IN  IF sol_match = None
        THEN Parts("no sol operand", <<>>, None, None)
        ELSE LET solution_moves == ExtractSolutionMoves(CHOOSE t \in sol_match : TRUE)
                 fields == BaseFields(line)
                 fen == IF Len(fields) >= 6 THEN SubSeq(fields, 1, 6) ELSE fields
                 themed == ExtractMateMoves(FirstOperand(line, "theme"))
             IN  IF solution_moves = <<>>
                 THEN Parts("sol operand is empty", <<>>, None, None)
                 ELSE IF Len(fields) < 4
                 THEN Parts("not enough FEN fields", solution_moves, None, None)
                 ELSE IF ~BoardAccepts(fen, ok)
                 THEN Parts("invalid FEN", solution_moves, None, None)
                 ELSE Parts("", solution_moves, Some(fen),
                            IF themed = None THEN Some(Len(solution_moves)) ELSE themed)

TripInit ==
    /\ RunIdle
    /\ ExtractIdle
    /\ AnnotateIdle
    /\ BuilderIdle
    /\ ExportIdle
    /\ SignIdle
    /\ BarIdle
    /\ trip_line \in InputLines
    /\ trip_ok \in BOOLEAN
    /\ trip_mate \in Mates
    /\ trip_limit \in 0..MaxLimit
    /\ trip_pv \in Pvs
    /\ trip_add \in BOOLEAN
    /\ trip_analysed = None
    /\ trip_written = None
    /\ trip_kept = 0
    /\ trip_read = None
    /\ tpc = "input"

\* run(), lines 205-335, for this line: rejected by chess.Board, or analysed
\* and dropped by the keep test, or written and counted.
FilterLine ==
    /\ tpc = "input"
    /\ tpc' = "filtered"
    /\ IF BoardAccepts(CandidateFen(trip_line), trip_ok)
       THEN /\ trip_analysed' = Some(CandidateFen(trip_line))
            /\ IF KeepTest(Some(trip_mate), trip_limit)
               THEN /\ trip_written' = Some(WrittenLine(trip_line,
                           OutputLine(1, Some(trip_mate), trip_pv, trip_add)))
                    /\ trip_kept' = trip_kept + 1
               ELSE UNCHANGED <<trip_written, trip_kept>>
       ELSE UNCHANGED <<trip_analysed, trip_written, trip_kept>>
    /\ UNCHANGED <<trip_line, trip_ok, trip_mate, trip_limit, trip_pv, trip_add,
                   trip_read>>
    /\ UNCHANGED <<runVars, extractVars, annotateVars, builderVars, exportVars,
                   signVars, barVars>>

\* _parse_puzzle_from_line on the line the Filter Pipeline wrote.
ReadWritten ==
    /\ tpc = "filtered"
    /\ trip_written # None
    /\ tpc' = "read"
    /\ trip_read' = Some(ParsedParts(CHOOSE l \in trip_written : TRUE, trip_ok))
    /\ UNCHANGED <<trip_line, trip_ok, trip_mate, trip_limit, trip_pv, trip_add,
                   trip_analysed, trip_written, trip_kept>>
    /\ UNCHANGED <<runVars, extractVars, annotateVars, builderVars, exportVars,
                   signVars, barVars>>

TripNext == FilterLine \/ ReadWritten

TripSpec == TripInit /\ [][TripNext]_vars

\* The line had no sol or theme operand of its own, annotation was on and the
\* principal variation was not empty.
TripCase ==
    /\ tpc = "read"
    /\ trip_add
    /\ trip_pv # <<>>
    /\ FirstOperand(trip_line, "sol") = None
    /\ FirstOperand(trip_line, "theme") = None

TheRead == CHOOSE r \in trip_read : TRUE

\* C31: for a line the Filter Pipeline kept with annotation on and a
\* non-empty principal variation, whose text has no sol or theme operand of
\* its own, the Puzzle Builder gets from the written line exactly the
\* annotated tokens, the mate distance |m|, and the position that was
\* analysed.
C31_RoundTrip ==
    TripCase =>
        /\ TheRead.tokens = Annotated(trip_pv)
        /\ TheRead.mate_moves = Some(Abs(trip_mate))
        /\ TheRead.fen = trip_analysed

\* The same for lines whose position text has at least four fields.
C31_RoundTripFourFields ==
    (TripCase /\ Len(BaseFields(trip_line)) >= 4) =>
        /\ TheRead.tokens = Annotated(trip_pv)
        /\ TheRead.mate_moves = Some(Abs(trip_mate))
        /\ TheRead.fen = trip_analysed

\* A line with its own sol operand is read back with that operand's tokens.
C31_OwnOperandReadBack ==
    /\ tpc = "read"
    /\ trip_add
    /\ trip_pv # <<>>
    /\ FirstOperand(trip_line, "sol") # None
    /\ TheRead.tokens # Annotated(trip_pv)


\* ============================================== the end of an export run
\* The destination holds what it held before the run.
DestUntouched == dest \in {"untouched", "makedirs failed", "open failed"}

\* C32: when no callback raises, an export run invokes the completion
\* callback exactly once: with success after the destination was written, or
\* with failure on cancellation or error.  A run whose poll saw the stop
\* event returns cancelled with the entries built so far, ends its progress
\* events with one at 100, and leaves the destination alone; a stop event
\* that no poll saw does not cancel the run, which writes the destination.
C32_CompletionExactlyOnce ==
    (jpc = "done" /\ ~cb_raised) =>
        /\ Len(finished) = 1
        /\ finished[1].ok =>
               /\ dest = "written"
               /\ returned # None
               /\ ~cancelled
               /\ finished[1].kept = json_kept
        /\ ~finished[1].ok => (cancelled \/ returned = None \/ dest # "written")
        /\ cancelled =>
               /\ returned # None
               /\ TheReturn.cancelled
               /\ TheReturn.payload.puzzles = puzzles
               /\ Len(puzzles) = Cardinality(EntryLines)
               /\ json_progress[Len(json_progress)].pct = 100
               /\ dest = "untouched"
               /\ finished[1] = Finished(FALSE, json_kept)
        /\ (stop_event /\ ~cancelled /\ returned # None) =>
               /\ ~TheReturn.cancelled
               /\ TheReturn.processed = Len(source)
               /\ DestUntouched \/ dest = "dump failed" \/ finished[1].ok

\* A run cancelled after its first line, with an entry built before.
C32_Witness ==
    /\ jpc = "done"
    /\ ~cb_raised
    /\ cancelled
    /\ Len(puzzles) >= 1
    /\ json_processed < Len(source)
    /\ Len(finished) = 1
    /\ dest = "untouched"

\* A stop event set after the last poll: the run completes and writes.
C32_LateStop ==
    /\ jpc = "done"
    /\ ~cb_raised
    /\ stop_event
    /\ ~cancelled
    /\ dest = "written"
    /\ finished = <<Finished(TRUE, json_kept)>>

\* With a raising completion callback the callback is invoked twice.
C32_TwiceWhenRaising ==
    /\ jpc = "done"
    /\ Len(finished) = 2


\* ==================================== the operands the Filter Pipeline adds
TheWritten == CHOOSE l \in trip_written : TRUE

\* What the written line has after the text of the input line.
Added == SubSeq(TheWritten, Len(trip_line) + 1, Len(TheWritten))

Adds(name) == \E i \in 1..Len(Added) : Added[i].kind = name

\* C33: the sol and theme operands are appended together or not at all: a
\* written line gets a theme operand iff it gets a sol operand, which is iff
\* annotation is enabled and the recorded move list is not empty; a kept line
\* whose principal variation is empty is written as it was read, also with
\* annotation enabled, and is counted in kept.
C33_OperandsTogether ==
    /\ (tpc # "input" /\ trip_written = None) => trip_kept = 0
    /\ (tpc # "input" /\ trip_written # None) =>
           /\ Adds("theme") <=> Adds("sol")
           /\ Adds("sol") <=> (trip_add /\ Recorded(trip_pv) > 0)
           /\ trip_pv = <<>> => TheWritten = trip_line
           /\ SubSeq(TheWritten, 1, Len(trip_line)) = trip_line
           /\ trip_kept = 1

\* A kept line with an empty principal variation, annotation enabled.
C33_Witness ==
    /\ tpc = "filtered"
    /\ trip_written # None
    /\ trip_add
    /\ trip_pv = <<>>
    /\ TheWritten = trip_line
    /\ trip_kept = 1

\* A kept line that got both operands.
C33_BothAdded ==
    /\ tpc = "filtered"
    /\ trip_written # None
    /\ Adds("sol")
    /\ Adds("theme")


\* The same in a whole run: every line of the output file has both operands
\* or none, none when annotation is off, and kept counts the lines written.
C33_WholeRun ==
    /\ kept = Len(outfile.lines)
    /\ \A i \in 1..Len(outfile.lines) :
           /\ (outfile.lines[i].theme # None) <=> (outfile.lines[i].sol # <<>>)
           /\ outfile.lines[i].sol # <<>> => add_solution

====
